---- MODULE Spec2Model ----
(***************************************************************************)
(* A model of asdfw (babysnakes/asdf-win): the version cascade over the    *)
(* environment, the local .tool-versions files and the global file, the    *)
(* shim database, the shim scanner and the shim directory.                 *)
(*                                                                         *)
(* Text is a sequence of one-character strings; a file is the sequence of  *)
(* its characters (CR and LF are the two line-ending characters), or       *)
(* NoFile when it does not exist.  A Result<Option<String>> is a record    *)
(* [tag, val] with tag "Some", "None" or "Err".                            *)
(***************************************************************************)
EXTENDS Integers, Sequences, FiniteSets, TLC

\* ---------------------------------------------------------------- bounds
\* The current directory lies MaxDepth levels below the filesystem root.
MaxDepth == 2
\* The number of edits the user makes to the environment and the files
\* before the program runs.
MaxSetup == 3

VARIABLES
    env,      \* the process environment: variable name -> value
    local,    \* depth of a directory -> content of its .tool-versions
    global,   \* content of the global tool-versions file
    shimsDir, \* the shim directory: whether it exists, file name -> content
    dbFile,   \* the shim database file: whether it exists, its bytes
    installs, \* the installs directory: its tool, version and bin directories
    plugins,  \* tool -> the state of its plugin.yaml
    shimExe,  \* whether the launcher executable that shims copy is in place
    runs,     \* number of reshim runs so far
    setup,    \* number of user edits made so far
    phase,    \* "setup" while the user prepares the machine, "done" after the run
    op,       \* the operation the program ran, with its arguments
    ret       \* what the operation returned

versionVars == <<env, local, global>>
shimVars == <<shimsDir, dbFile, installs, plugins, shimExe, runs>>
installVars == <<installs, plugins>>
vars == <<env, local, global, shimsDir, dbFile, installs, plugins, shimExe, runs, setup, phase, op, ret>>

\* ------------------------------------------------------------------ text
CR == "CR"
LF == "LF"
SP == " "

NoFile == <<"NoFile">>
NoDir == [exists |-> FALSE, files |-> <<>>]
EmptyDir == [exists |-> TRUE, files |-> <<>>]
Names(dir) == DOMAIN dir.files
NoDb == [exists |-> FALSE, bytes |-> <<>>]
OkVal(v) == [tag |-> "Ok", val |-> v]
EmptyInstalls ==
    [exists |-> TRUE,
     toolDirs |-> {}, toolFiles |-> {},   \* entries of the installs directory
     verDirs |-> {}, verFiles |-> {},     \* <<tool, entry>> of a tool directory
     binDirs |-> {},                      \* <<tool, version, dir>>
     exes |-> {}]                         \* <<tool, version, dir, file name>>
\* A plugin.yaml: absent, malformed, or a document that may have a bin_dirs
\* list and may have an env_vars list.
PluginDoc(state, has_bin_dirs, bin_dirs, has_env_vars, env_vars) ==
    [state |-> state,
     has_bin_dirs |-> has_bin_dirs, bin_dirs |-> bin_dirs,
     has_env_vars |-> has_env_vars, env_vars |-> env_vars]
NoPlugin == PluginDoc("absent", FALSE, <<>>, FALSE, <<>>)
NotPresent == <<"NotPresent">>
NotUnicode == <<"NotUnicode">>

Some(v) == [tag |-> "Some", val |-> v]
None == [tag |-> "None", val |-> <<>>]
Err(kind) == [tag |-> "Err", val |-> <<kind>>]

Front(s) == SubSeq(s, 1, Len(s) - 1)
Last(s) == s[Len(s)]

FILE_NAME == ".tool-versions"

\* str::to_uppercase, character by character.
UpperChar(c) ==
    CASE c = "a" -> "A"
      [] c = "b" -> "B"
      [] OTHER -> c

to_uppercase(s) == [i \in 1..Len(s) |-> UpperChar(s[i])]

env_var_name_for_tool(tool) ==
    <<"A", "S", "D", "F", "W", "_">> \o to_uppercase(tool)
        \o <<"_", "V", "E", "R", "S", "I", "O", "N">>

\* ------------------------------------------------------------ parse_line
\* The index of the first space of a line, 0 when it has none.
FirstSpace(line) ==
    IF \E i \in 1..Len(line) : line[i] = SP
    THEN CHOOSE i \in 1..Len(line) :
             /\ line[i] = SP
             /\ \A j \in 1..(i - 1) : line[j] # SP
    ELSE 0

\* str::split_once(' ')
split_once(line) ==
    LET i == FirstSpace(line)
    IN  IF i = 0
        THEN [ok |-> FALSE, tool |-> <<>>, ver |-> <<>>]
        ELSE [ok |-> TRUE,
              tool |-> SubSeq(line, 1, i - 1),
              ver |-> SubSeq(line, i + 1, Len(line))]

\* parse_line as a mutation would have it: a version may contain a space.
parse_line_SpaceInVersion(line) ==
    LET result == split_once(line)
        error == [ok |-> FALSE, tool |-> <<>>, ver |-> <<>>]
    IN  IF ~result.ok THEN error
        ELSE IF result.tool = <<>> \/ result.ver = <<>> THEN error
        ELSE result

parse_line(line) ==
    LET result == split_once(line)
        error == [ok |-> FALSE, tool |-> <<>>, ver |-> <<>>]
    IN  IF ~result.ok THEN error
        ELSE IF result.tool = <<>> \/ result.ver = <<>> THEN error
        ELSE IF \E j \in 1..Len(result.ver) : result.ver[j] = SP THEN error
        ELSE result

\* ------------------------------------------------- BufRead::lines of a file
\* A line ends at LF; the LF and a CR right before it are dropped.  Text
\* after the last LF is a last line, kept as it is.
StripCR(s) == IF Len(s) > 0 /\ Last(s) = CR THEN Front(s) ELSE s

RECURSIVE SplitLines(_, _, _, _)
SplitLines(content, i, cur, acc) ==
    IF i > Len(content)
    THEN IF cur = <<>> THEN acc ELSE Append(acc, cur)
    ELSE IF content[i] = LF
         THEN SplitLines(content, i + 1, <<>>, Append(acc, StripCR(cur)))
         ELSE SplitLines(content, i + 1, Append(cur, content[i]), acc)

ReadLines(content) == SplitLines(content, 1, <<>>, <<>>)

\* --------------------------------------------------- search_tool_in_file
RECURSIVE SearchLines(_, _, _)
SearchLines(search_for, lines, i) ==
    IF i > Len(lines) THEN None
    ELSE LET p == parse_line(lines[i])
         IN  IF ~p.ok THEN Err("Invalid tools versions line")
             ELSE IF p.tool = search_for THEN Some(p.ver)
             ELSE SearchLines(search_for, lines, i + 1)

search_tool_in_file(search_for, content) ==
    IF content = NoFile THEN Err("open failed")
    ELSE SearchLines(search_for, ReadLines(content), 1)

\* ----------------------------------------------------------- ToolVersions
\* std::env::var(name).ok(): a variable that is not present, or whose value
\* is not valid Unicode, gives None.
get_version_from_env(tool) ==
    LET env_name == env_var_name_for_tool(tool)
    IN  IF env_name \in DOMAIN env
           /\ env[env_name] # NotPresent
           /\ env[env_name] # NotUnicode
        THEN Some(env[env_name])
        ELSE None

\* A path is the sequence of its components below the filesystem root.
DirPath(d) == [i \in 1..d |-> "dir"]
current_dir == DirPath(MaxDepth)

push(path, name) == Append(path, name)
\* PathBuf::pop: false, and the path unchanged, when the path has no parent.
pop(path) ==
    IF path = <<>> THEN [ok |-> FALSE, path |-> path]
    ELSE [ok |-> TRUE, path |-> Front(path)]

\* The content of the file a path names (the path of a .tool-versions file).
FileAt(path) ==
    IF path # <<>> /\ Last(path) = FILE_NAME /\ (Len(path) - 1) \in DOMAIN local
    THEN local[Len(path) - 1]
    ELSE NoFile

is_file(path) == FileAt(path) # NoFile

\* A walk that stops at the first directory that has a file, whether or not
\* the file defines the tool.
RECURSIVE WalkUpStopsAtFirstFile(_, _)
WalkUpStopsAtFirstFile(tool, dir) ==
    LET path == push(dir, FILE_NAME)
        p2 == pop(pop(path).path)
    IN  IF is_file(path) THEN search_tool_in_file(tool, FileAt(path))
        ELSE IF ~p2.ok THEN None
        ELSE WalkUpStopsAtFirstFile(tool, p2.path)

RECURSIVE WalkUp(_, _)
WalkUp(tool, dir) ==
    LET path == push(dir, FILE_NAME)
        found == IF is_file(path)
                 THEN search_tool_in_file(tool, FileAt(path))
                 ELSE None
        p1 == pop(path)
        p2 == pop(p1.path)
    IN  IF found.tag # "None" THEN found
        ELSE IF ~(p1.ok /\ p2.ok) THEN None
        ELSE WalkUp(tool, p2.path)

\* The end of one turn of the loop as a mutation would have it: the path is
\* popped once, which only takes the file name off again.
LoopEnd_PopsOnce(path) ==
    LET p1 == pop(path)
    IN  [again |-> p1.ok, path |-> p1.path]

\* The end of one turn of the loop: `path.pop() && path.pop()` takes off the
\* file name and then the directory; the loop goes on when both succeed.
LoopEnd(path) ==
    LET p1 == pop(path)
        p2 == pop(p1.path)
    IN  [again |-> p1.ok /\ p2.ok, path |-> p2.path]

get_version_from_current_dir(tool) == WalkUp(tool, current_dir)

get_version_from_global(tool) == search_tool_in_file(tool, global)

\* A cascade that asks the global file before the local files.
get_version_GlobalBeforeLocal(tool) ==
    LET r1 == get_version_from_env(tool)
        r2 == IF r1.tag = "None" THEN get_version_from_global(tool) ELSE r1
        r3 == IF r2.tag = "None" THEN get_version_from_current_dir(tool) ELSE r2
    IN  r3

\* eval_if_none over the three sources; an error ends the chain.
get_version(tool) ==
    LET r1 == get_version_from_env(tool)
        r2 == IF r1.tag = "None" THEN get_version_from_current_dir(tool) ELSE r1
        r3 == IF r2.tag = "None" THEN get_version_from_global(tool) ELSE r2
    IN  r3

\* ------------------------------------------- set_tool_version and its files
\* ToolVersionsData, a HashMap<String, String>, is a function tool -> version.
EmptyData == [x \in {} |-> <<>>]

\* HashMap::insert
insert(data, k, v) ==
    [x \in (DOMAIN data) \cup {k} |-> IF x = k THEN v ELSE data[x]]

RECURSIVE LoadLines(_, _, _)
LoadLines(lines, i, data) ==
    IF i > Len(lines) THEN [ok |-> TRUE, data |-> data]
    ELSE LET p == parse_line(lines[i])
         IN  IF ~p.ok THEN [ok |-> FALSE, data |-> EmptyData]
             ELSE LoadLines(lines, i + 1, insert(data, p.tool, p.ver))

load_file(content) ==
    IF content = NoFile THEN [ok |-> TRUE, data |-> EmptyData]
    ELSE LoadLines(ReadLines(content), 1, EmptyData)

\* [String]::join
RECURSIVE join(_, _)
join(strings, sep) ==
    IF Len(strings) = 0 THEN <<>>
    ELSE IF Len(strings) = 1 THEN strings[1]
    ELSE strings[1] \o sep \o join(Tail(strings), sep)

\* The orders in which a HashMap may hand out its keys.
IterationOrders(S) ==
    { o \in [1..Cardinality(S) -> S] :
        \A i, j \in 1..Cardinality(S) : i # j => o[i] # o[j] }

\* save_file: one "<tool> <version>" string per pair, in the map's iteration
\* order, then an empty string, joined by CR LF.
save_file(data, order) ==
    LET strings == [i \in 1..Len(order) |-> order[i] \o <<SP>> \o data[order[i]]]
    IN  join(Append(strings, <<>>), <<CR, LF>>)

\* set_tool_version: [ok, content]; content is the file after the call.
set_tool_version(content, tool, version, order) ==
    LET loaded == load_file(content)
    IN  IF ~loaded.ok THEN [ok |-> FALSE, content |-> content]
        ELSE [ok |-> TRUE,
              content |-> save_file(insert(loaded.data, tool, version), order)]

\* The key orders save_file may meet when set_tool_version runs on a file.
SaveOrders(content, tool, version) ==
    LET loaded == load_file(content)
    IN  IF ~loaded.ok THEN {<<>>}
        ELSE IterationOrders(DOMAIN insert(loaded.data, tool, version))

\* ------------------------------------------------------------- the user
ToolA == <<"a">>
ToolB == <<"b">>
Tools == {ToolA, ToolB}

UserLines ==
    { <<"a", SP, "1">>,
      <<"a", SP, "2">>,
      <<"b", SP, "1">>,
      <<"b", SP, SP, "1">> }

EnvNames == { <<"A", "S", "D", "F", "W", "_", "A", "_", "V", "E", "R", "S", "I", "O", "N">> }
EnvValues == { <<"9">>, <<>>, NotUnicode }
\* The variables a plugin.yaml names as overriding ones.
OverrideNames == { <<"O">> }

Depths == 0..MaxDepth

UserSetsEnv ==
    /\ phase = "setup" /\ setup < MaxSetup
    /\ \E n \in EnvNames, v \in EnvValues :
          /\ env[n] # v
          /\ env' = [env EXCEPT ![n] = v]
    /\ setup' = setup + 1
    /\ UNCHANGED <<local, global, phase, op, ret, shimVars>>

AppendLine(content, line) ==
    (IF content = NoFile THEN <<>> ELSE content) \o line \o <<CR, LF>>

UserWritesLocal ==
    /\ phase = "setup" /\ setup < MaxSetup
    /\ \E d \in Depths, line \in UserLines :
          local' = [local EXCEPT ![d] = AppendLine(local[d], line)]
    /\ setup' = setup + 1
    /\ UNCHANGED <<env, global, phase, op, ret, shimVars>>

UserTouchesLocal ==
    /\ phase = "setup" /\ setup < MaxSetup
    /\ \E d \in Depths :
          /\ local[d] = NoFile
          /\ local' = [local EXCEPT ![d] = <<>>]
    /\ setup' = setup + 1
    /\ UNCHANGED <<env, global, phase, op, ret, shimVars>>

UserWritesGlobal ==
    /\ phase = "setup" /\ setup < MaxSetup
    /\ \E line \in UserLines : global' = AppendLine(global, line)
    /\ setup' = setup + 1
    /\ UNCHANGED <<env, local, phase, op, ret, shimVars>>

UserTouchesGlobal ==
    /\ phase = "setup" /\ setup < MaxSetup
    /\ global = NoFile
    /\ global' = <<>>
    /\ setup' = setup + 1
    /\ UNCHANGED <<env, local, phase, op, ret, shimVars>>

UserEdits ==
    \/ UserSetsEnv
    \/ UserWritesLocal
    \/ UserTouchesLocal
    \/ UserWritesGlobal
    \/ UserTouchesGlobal

\* ------------------------------------------------------------ the program
GetVersion ==
    /\ phase = "setup"
    /\ \E tool \in Tools :
          /\ op' = [name |-> "get_version", tool |-> tool, version |-> <<>>]
          /\ ret' = get_version(tool)
    /\ phase' = "done"
    /\ UNCHANGED <<env, local, global, setup, shimVars>>

Ok == [tag |-> "Ok", val |-> <<>>]

\* What the command line accepts as a tool and as a version: any string.
SaveTools == Tools \cup { <<"a", SP, "b">> }
SaveVersions == { <<"1">>, <<"2">>, <<>> }

SaveLocal ==
    /\ phase = "setup"
    /\ \E tool \in SaveTools, version \in SaveVersions :
          \E order \in SaveOrders(FileAt(push(current_dir, FILE_NAME)), tool, version) :
             LET r == set_tool_version(FileAt(push(current_dir, FILE_NAME)),
                                       tool, version, order)
             IN  /\ op' = [name |-> "save_local", tool |-> tool, version |-> version]
                 /\ local' = [local EXCEPT ![Len(current_dir)] = r.content]
                 /\ ret' = IF r.ok THEN Ok ELSE Err("Invalid tools versions line")
    /\ phase' = "done"
    /\ UNCHANGED <<env, global, setup, shimVars>>

SaveGlobal ==
    /\ phase = "setup"
    /\ \E tool \in SaveTools, version \in SaveVersions :
          \E order \in SaveOrders(global, tool, version) :
             LET r == set_tool_version(global, tool, version, order)
             IN  /\ op' = [name |-> "save_global", tool |-> tool, version |-> version]
                 /\ global' = r.content
                 /\ ret' = IF r.ok THEN Ok ELSE Err("Invalid tools versions line")
    /\ phase' = "done"
    /\ UNCHANGED <<env, local, setup, shimVars>>

NoOp == [name |-> "none", tool |-> <<>>, version |-> <<>>]

Init ==
    /\ env = [n \in EnvNames \cup OverrideNames |-> NotPresent]
    /\ local = [d \in Depths |-> NoFile]
    /\ global = NoFile
    /\ shimsDir = EmptyDir
    /\ dbFile = NoDb
    /\ installs = EmptyInstalls
    /\ plugins = [t \in Tools |-> NoPlugin]
    /\ shimExe = TRUE
    /\ runs = 0
    /\ setup = 0
    /\ phase = "setup"
    /\ op = NoOp
    /\ ret = None

NextVersions == UserEdits \/ GetVersion \/ SaveLocal \/ SaveGlobal

SpecVersions == Init /\ [][NextVersions]_vars

\* ------------------------------------------------------------ file names
DOT == "."
EXE == <<"e", "x", "e">>
CMD == <<"c", "m", "d">>
BAT == <<"b", "a", "t">>
TXT == <<"t", "x", "t">>

\* The index of the last dot of a file name, 0 when it has none.
LastDot(name) ==
    IF \E i \in 1..Len(name) : name[i] = DOT
    THEN CHOOSE i \in 1..Len(name) :
             /\ name[i] = DOT
             /\ \A j \in (i + 1)..Len(name) : name[j] # DOT
    ELSE 0

\* Path::file_stem: the name up to its last dot; the whole name when it has
\* no dot or only a leading one.
file_stem(name) ==
    IF LastDot(name) <= 1 THEN name ELSE SubSeq(name, 1, LastDot(name) - 1)

\* Path::extension: what follows the last dot, if the name has a stem
\* before it.
extension(name) ==
    IF LastDot(name) <= 1 THEN None
    ELSE Some(SubSeq(name, LastDot(name) + 1, Len(name)))

\* Path::with_extension: the stem, a dot and the extension; it REPLACES an
\* extension the name already has.
with_extension(name, ext) ==
    IF name = <<>> THEN name ELSE file_stem(name) \o <<DOT>> \o ext

\* --------------------------------------------------------------- Shims
\* Shims::extensions, the table Shims::new builds.
extensions == [e \in {EXE, CMD} |-> IF e = EXE THEN "ExeShim" ELSE "CmdShim"]

RECURSIVE ResolveEntries(_, _, _)
ResolveEntries(exe, entries, i) ==
    IF i > Len(entries) THEN None
    ELSE LET name == entries[i]
         IN  IF exe = name THEN Some(name)
             ELSE IF \E ext \in DOMAIN extensions : with_extension(exe, ext) = name
                  THEN Some(name)
                  ELSE ResolveEntries(exe, entries, i + 1)

\* resolve_command: `entries` is the order in which read_dir hands out the
\* names of the shim directory.
resolve_command(exe, entries) ==
    IF ~shimsDir.exists THEN Err("read_dir failed")
    ELSE ResolveEntries(exe, entries, 1)

\* The orders in which read_dir may hand out the entries of a directory.
ReadDirOrders(dir) == IterationOrders(Names(dir))

\* ------------------------------------------------------ the shim database
\* ShimsDB is a map from a file name to ShimData [tool, tipe].
ShimData(tool, tipe) == [tool |-> tool, tipe |-> tipe]

\* The UTF-16 code units of the characters that occur in names.
Utf16 ==
    ("a" :> 97) @@ ("b" :> 98) @@ ("c" :> 99) @@ ("d" :> 100) @@ ("e" :> 101)
    @@ ("i" :> 105) @@ ("l" :> 108) @@ ("m" :> 109) @@ ("n" :> 110)
    @@ ("t" :> 116) @@ ("x" :> 120) @@ ("y" :> 121) @@ ("." :> 46)
    @@ ("1" :> 49) @@ ("2" :> 50)

CodeUnit(c) == Utf16[c]

CharOf(u) ==
    IF \E c \in DOMAIN Utf16 : Utf16[c] = u
    THEN CHOOSE c \in DOMAIN Utf16 : Utf16[c] = u
    ELSE "?"

\* The variant index of a ShimType as a mutation would have it: every kind
\* written as the first variant.
ShimTypeIndex_AlwaysFirst(tipe) == 0

\* The variant index of a ShimType in its declaration order.
ShimTypeIndex(tipe) == IF tipe = "ExeShim" THEN 0 ELSE 1

\* An OsString on Windows: the variant index of the platform, the number of
\* code units, the code units.
ser_os_string(str) == <<1, Len(str)>> \o [i \in 1..Len(str) |-> CodeUnit(str[i])]

ser_entry(exe, data) ==
    ser_os_string(exe) \o ser_os_string(data.tool) \o <<ShimTypeIndex(data.tipe)>>

RECURSIVE ser_entries(_, _, _)
ser_entries(db, order, i) ==
    IF i > Len(order) THEN <<>>
    ELSE ser_entry(order[i], db[order[i]]) \o ser_entries(db, order, i + 1)

\* bincode::serialize of a ShimsDB: the number of entries, then every key
\* with its value in the map's iteration order.
serialize(db, order) == <<Len(order)>> \o ser_entries(db, order, 1)

\* Reading an OsString at `pos`: fails on a short input and on the variant
\* of another platform.
de_os_string(bytes, pos) ==
    IF pos + 1 > Len(bytes) THEN [ok |-> FALSE, val |-> <<>>, next |-> pos]
    ELSE IF bytes[pos] # 1 THEN [ok |-> FALSE, val |-> <<>>, next |-> pos]
    ELSE LET n == bytes[pos + 1]
         IN  IF pos + 1 + n > Len(bytes)
             THEN [ok |-> FALSE, val |-> <<>>, next |-> pos]
             ELSE [ok |-> TRUE,
                   val |-> [i \in 1..n |-> CharOf(bytes[pos + 1 + i])],
                   next |-> pos + 2 + n]

de_shim_type(bytes, pos) ==
    IF pos > Len(bytes) THEN [ok |-> FALSE, val |-> "", next |-> pos]
    ELSE IF bytes[pos] = 0 THEN [ok |-> TRUE, val |-> "ExeShim", next |-> pos + 1]
    ELSE IF bytes[pos] = 1 THEN [ok |-> TRUE, val |-> "CmdShim", next |-> pos + 1]
    ELSE [ok |-> FALSE, val |-> "", next |-> pos]

RECURSIVE de_entries(_, _, _, _)
de_entries(bytes, pos, n, db) ==
    IF n = 0 THEN OkVal(db)
    ELSE LET k == de_os_string(bytes, pos)
             t == de_os_string(bytes, k.next)
             s == de_shim_type(bytes, t.next)
         IN  IF ~k.ok \/ ~t.ok \/ ~s.ok THEN Err("Error deserializing ShimsDB")
             ELSE de_entries(bytes, s.next, n - 1,
                             insert(db, k.val, ShimData(t.val, s.val)))

\* bincode::deserialize of a ShimsDB; bytes after the last entry are ignored.
deserialize(bytes) ==
    IF Len(bytes) < 1 THEN Err("Error deserializing ShimsDB")
    ELSE de_entries(bytes, 2, bytes[1], EmptyData)

\* load_db of a database file.
load_db(file) ==
    IF ~file.exists THEN Err("read failed") ELSE deserialize(file.bytes)

\* save_db: the files fs::write may leave, one per iteration order of the map.
save_db(db) ==
    { [exists |-> TRUE, bytes |-> serialize(db, order)] :
        order \in IterationOrders(DOMAIN db) }

\* ------------------------------------------------------------- plugins
BIN == <<"b", "i", "n">>
LIB == <<"l", "i", "b">>
DEFAULT_DIR == BIN

default_bin_dirs == <<DEFAULT_DIR>>

PluginConfig(bin_dirs, env_vars) == [bin_dirs |-> bin_dirs, env_vars |-> env_vars]

\* serde_yaml::from_reader into a PluginConfig: a missing bin_dirs is the
\* default list, a missing env_vars the empty list.
from_reader(file) ==
    PluginConfig(IF file.has_bin_dirs THEN file.bin_dirs ELSE default_bin_dirs,
                 IF file.has_env_vars THEN file.env_vars ELSE <<>>)

\* Plugin::new as a mutation would have it: an empty bin_dirs list is kept.
Plugin_new_KeepsEmpty(tool) ==
    LET file == plugins[tool]
    IN  IF file.state = "absent" THEN OkVal(PluginConfig(default_bin_dirs, <<>>))
        ELSE IF file.state = "malformed" THEN Err("Parsing plugin config")
        ELSE OkVal(from_reader(file))

\* Plugin::new, as the configuration it loads: the default without a
\* plugin.yaml, an error when the file does not parse, the default bin_dirs
\* in place of an empty list.
Plugin_new(tool) ==
    LET file == plugins[tool]
        config == from_reader(file)
    IN  IF file.state = "absent" THEN OkVal(PluginConfig(default_bin_dirs, <<>>))
        ELSE IF file.state = "malformed" THEN Err("Parsing plugin config")
        ELSE IF config.bin_dirs = <<>>
             THEN OkVal(PluginConfig(default_bin_dirs, config.env_vars))
             ELSE OkVal(config)

\* PluginManager::get_plugin
get_plugin(tool) == Plugin_new(tool)

\* ------------------------------------------------ scanning the installs
\* Shims::new
Shims_new ==
    IF ~installs.exists THEN Err("not an existing directory") ELSE Ok

\* requires_shim as a mutation would have it: only "exe" is known.
requires_shim_ExeOnly(ext) ==
    IF ext.tag = "Some" /\ ext.val = EXE THEN Some("ExeShim") ELSE None

\* requires_shim: the shim type of an extension the table knows.
requires_shim(ext) ==
    IF ext.tag = "Some" /\ ext.val \in DOMAIN extensions
    THEN Some(extensions[ext.val])
    ELSE None

\* The test a mutation would make of a replaced entry: any replaced entry
\* counts as another tool's.
OtherTool_AnyOld(old, tool) == TRUE

\* value.tool != tool, the test made of the entry an insert replaced.
OtherTool(old, tool) == old.tool # tool

ConflictErr(exe, tool, other) ==
    [tag |-> "Err", val |-> <<"appears in two tools", exe, tool, other>>]

\* One entry of a bin directory: skipped without a known extension; else
\* inserted, and an error when the insert replaced another tool's entry.
ScanExe(db, tool, exe) ==
    LET tipe == requires_shim(extension(exe))
    IN  IF tipe.tag = "None" THEN OkVal(db)
        ELSE IF exe \in DOMAIN db /\ OtherTool(db[exe], tool)
             THEN ConflictErr(exe, tool, db[exe].tool)
             ELSE OkVal(insert(db, exe, ShimData(tool, tipe.val)))

\* The entries of a bin directory in every order read_dir may hand them out:
\* the set of results the loop over them can end with.
RECURSIVE ScanExes(_, _, _)
ScanExes(db, tool, todo) ==
    IF todo = {} THEN {OkVal(db)}
    ELSE UNION { LET r == ScanExe(db, tool, exe)
                 IN  IF r.tag = "Err" THEN {r}
                     ELSE ScanExes(r.val, tool, todo \ {exe})
                 : exe \in todo }

ExesIn(tool, version, dir) ==
    { n \in {e[4] : e \in installs.exes} : <<tool, version, dir, n>> \in installs.exes }

\* ScanBinDirs as a mutation would have it: a bin directory the version does
\* not have is skipped.
RECURSIVE ScanBinDirs_SkipsMissing(_, _, _, _, _)
ScanBinDirs_SkipsMissing(db, tool, version, bin_dirs, k) ==
    IF k > Len(bin_dirs) THEN {OkVal(db)}
    ELSE IF <<tool, version, bin_dirs[k]>> \notin installs.binDirs
         THEN ScanBinDirs_SkipsMissing(db, tool, version, bin_dirs, k + 1)
         ELSE UNION { IF r.tag = "Err" THEN {r}
                      ELSE ScanBinDirs_SkipsMissing(r.val, tool, version, bin_dirs, k + 1)
                      : r \in ScanExes(db, tool, ExesIn(tool, version, bin_dirs[k])) }

\* The bin_dirs of the plugin in their configured order; read_dir fails on a
\* bin directory the version does not have.
RECURSIVE ScanBinDirs(_, _, _, _, _)
ScanBinDirs(db, tool, version, bin_dirs, k) ==
    IF k > Len(bin_dirs) THEN {OkVal(db)}
    ELSE IF <<tool, version, bin_dirs[k]>> \notin installs.binDirs
         THEN {Err("read_dir failed")}
         ELSE UNION { IF r.tag = "Err" THEN {r}
                      ELSE ScanBinDirs(r.val, tool, version, bin_dirs, k + 1)
                      : r \in ScanExes(db, tool, ExesIn(tool, version, bin_dirs[k])) }

\* One entry of a tool directory: skipped unless it is a directory; else the
\* plugin is loaded and its bin_dirs are scanned.
ScanVersion(db, tool, version) ==
    IF <<tool, version>> \notin installs.verDirs THEN {OkVal(db)}
    ELSE LET plugin == get_plugin(tool)
         IN  IF plugin.tag = "Err" THEN {plugin}
             ELSE ScanBinDirs(db, tool, version, plugin.val.bin_dirs, 1)

RECURSIVE ScanVersions(_, _, _)
ScanVersions(db, tool, todo) ==
    IF todo = {} THEN {OkVal(db)}
    ELSE UNION { UNION { IF r.tag = "Err" THEN {r}
                         ELSE ScanVersions(r.val, tool, todo \ {version})
                         : r \in ScanVersion(db, tool, version) }
                 : version \in todo }

EntriesOf(tool) ==
    { e[2] : e \in {x \in installs.verDirs \cup installs.verFiles : x[1] = tool} }

\* One entry of the installs directory: read_dir fails on a plain file.
ScanTool(db, tool) ==
    IF tool \in installs.toolFiles THEN {Err("read_dir failed")}
    ELSE ScanVersions(db, tool, EntriesOf(tool))

RECURSIVE ScanTools(_, _)
ScanTools(db, todo) ==
    IF todo = {} THEN {OkVal(db)}
    ELSE UNION { UNION { IF r.tag = "Err" THEN {r}
                         ELSE ScanTools(r.val, todo \ {tool})
                         : r \in ScanTool(db, tool) }
                 : tool \in todo }

\* generate_db_from_installed_tools: the results it can return, over the
\* orders in which read_dir may enumerate each directory.
generate_db_from_installed_tools ==
    ScanTools(EmptyData, installs.toolDirs \cup installs.toolFiles)

\* ------------------------------------------------------ creating shims
\* The directory with the file `name` created or overwritten.
WriteFile(dir, name, content) ==
    [dir EXCEPT !.files = [x \in (DOMAIN dir.files) \cup {name} |->
                              IF x = name THEN content ELSE dir.files[x]]]

UserFile == [kind |-> "user", exe |-> <<>>, tool |-> <<>>]
Launcher == [kind |-> "launcher", exe |-> <<>>, tool |-> <<>>]
Script(exe, tool) == [kind |-> "script", exe |-> exe, tool |-> tool]

\* One shim: a copy of the launcher for an ExeShim, a script naming the
\* file and its tool for a CmdShim.
write_shim(dir, exe, data) ==
    IF data.tipe = "ExeShim"
    THEN IF shimExe /\ dir.exists
         THEN [ret |-> Ok, dir |-> WriteFile(dir, exe, Launcher)]
         ELSE [ret |-> Err("creating shim"), dir |-> dir]
    ELSE IF dir.exists
         THEN [ret |-> Ok, dir |-> WriteFile(dir, exe, Script(exe, data.tool))]
         ELSE [ret |-> Err("write failed"), dir |-> dir]

\* The loop over the database in every iteration order of the map: the
\* results it can end with, each with the directory it leaves.
RECURSIVE WriteShims(_, _, _)
WriteShims(dir, db, todo) ==
    IF todo = {} THEN {[ret |-> Ok, dir |-> dir]}
    ELSE UNION { LET r == write_shim(dir, exe, db[exe])
                 IN  IF r.ret.tag = "Err" THEN {r}
                     ELSE WriteShims(r.dir, db, todo \ {exe})
                 : exe \in todo }

\* create_shims as a mutation would have it: the database is loaded before
\* the directory is cleaned up.
create_shims_LoadsFirst(cleanup, dir, file) ==
    LET db == load_db(file)
    IN  IF db.tag = "Err" THEN {[ret |-> db, dir |-> dir]}
        ELSE IF cleanup /\ ~dir.exists
        THEN {[ret |-> Err("cleaning up shims directory"), dir |-> dir]}
        ELSE WriteShims(IF cleanup THEN EmptyDir ELSE dir, db.val, DOMAIN db.val)

\* create_shims as a mutation would have it: the directory is removed and
\* recreated whether or not cleanup is asked for.
create_shims_AlwaysCleans(cleanup, dir, file) ==
    IF ~dir.exists
    THEN {[ret |-> Err("cleaning up shims directory"), dir |-> dir]}
    ELSE LET db == load_db(file)
         IN  IF db.tag = "Err" THEN {[ret |-> db, dir |-> EmptyDir]}
             ELSE WriteShims(EmptyDir, db.val, DOMAIN db.val)

\* create_shims: with cleanup the directory is removed and recreated first;
\* then the database is loaded and a shim written for each of its entries.
create_shims(cleanup, dir, file) ==
    IF cleanup /\ ~dir.exists
    THEN {[ret |-> Err("cleaning up shims directory"), dir |-> dir]}
    ELSE LET start == IF cleanup THEN EmptyDir ELSE dir
             db == load_db(file)
         IN  IF db.tag = "Err" THEN {[ret |-> db, dir |-> start]}
             ELSE WriteShims(start, db.val, DOMAIN db.val)

Untouched(result) == [ret |-> result, file |-> dbFile, dir |-> shimsDir]

\* reshim as a mutation would have it: the entries of the database on disk
\* that the scan did not find are kept.
reshim_KeepsOldEntries(cleanup) ==
    IF Shims_new.tag = "Err" THEN {Untouched(Shims_new)}
    ELSE UNION {
        IF db.tag = "Err" THEN {Untouched(db)}
        ELSE LET old == load_db(dbFile)
                 merged == IF old.tag = "Err" THEN db.val ELSE db.val @@ old.val
             IN  UNION { { [ret |-> c.ret, file |-> file, dir |-> c.dir]
                           : c \in create_shims(cleanup, shimsDir, file) }
                         : file \in save_db(merged) }
        : db \in generate_db_from_installed_tools }

\* reshim as a mutation would have it: the shim directory is cleaned up
\* before the installs are scanned.
reshim_CleanupBeforeScan(cleanup) ==
    IF Shims_new.tag = "Err" THEN {Untouched(Shims_new)}
    ELSE UNION {
        IF db.tag = "Err"
        THEN {[ret |-> db, file |-> dbFile,
               dir |-> IF cleanup THEN EmptyDir ELSE shimsDir]}
        ELSE UNION { { [ret |-> c.ret, file |-> file, dir |-> c.dir]
                       : c \in create_shims(cleanup, shimsDir, file) }
                     : file \in save_db(db.val) }
        : db \in generate_db_from_installed_tools }

\* reshim: Shims::new, generate_db_from_installed_tools, save_db and
\* create_shims, each returning at the first error; the results it can end
\* with, each with the database file and the shim directory it leaves.
reshim(cleanup) ==
    IF Shims_new.tag = "Err" THEN {Untouched(Shims_new)}
    ELSE UNION {
        IF db.tag = "Err" THEN {Untouched(db)}
        ELSE UNION { { [ret |-> c.ret, file |-> file, dir |-> c.dir]
                       : c \in create_shims(cleanup, shimsDir, file) }
                     : file \in save_db(db.val) }
        : db \in generate_db_from_installed_tools }

\* --------------------------------------------------- ExecutableContext
\* A path below the installs directory is the sequence of the components
\* pushed onto it.  Pushing an empty component leaves the same directory
\* with a trailing separator.
Components(path) == SelectSeq(path, LAMBDA c : c # <<>>)

IsDirPath(comps) ==
    CASE Len(comps) = 0 -> installs.exists
      [] Len(comps) = 1 -> comps[1] \in installs.toolDirs
      [] Len(comps) = 2 -> <<comps[1], comps[2]>> \in installs.verDirs
      [] Len(comps) = 3 -> <<comps[1], comps[2], comps[3]>> \in installs.binDirs
      [] OTHER -> FALSE

IsFilePath(comps) ==
    CASE Len(comps) = 1 -> comps[1] \in installs.toolFiles
      [] Len(comps) = 2 -> <<comps[1], comps[2]>> \in installs.verFiles
      [] Len(comps) = 4 -> <<comps[1], comps[2], comps[3], comps[4]>> \in installs.exes
      [] OTHER -> FALSE

\* Path::exists: a directory or a file; with a trailing separator only a
\* directory.
path_exists(path) ==
    IF path # <<>> /\ Last(path) = <<>>
    THEN IsDirPath(Components(path))
    ELSE IsDirPath(Components(path)) \/ IsFilePath(Components(path))

\* ExecutableContext::new as a mutation would have it: a context is made
\* whether or not the install root exists.
ExecutableContext_new_Unchecked(cmd_name, tool, config, version) ==
    Some([cmd_name |-> cmd_name, tool |-> tool, config |-> config,
          version |-> version, tool_install_root |-> <<tool, version>>])

\* ExecutableContext::new
ExecutableContext_new(cmd_name, tool, config, version) ==
    LET tool_install_root == <<tool, version>>
    IN  IF path_exists(tool_install_root)
        THEN Some([cmd_name |-> cmd_name, tool |-> tool, config |-> config,
                   version |-> version, tool_install_root |-> tool_install_root])
        ELSE None

\* get_full_executable_path as a mutation would have it: the bin_dirs are
\* tried from the last to the first.
RECURSIVE get_full_executable_path_LastFirst(_, _)
get_full_executable_path_LastFirst(ec, k) ==
    LET n == Len(ec.config.bin_dirs) + 1 - k
    IN  IF k > Len(ec.config.bin_dirs) THEN None
        ELSE LET assumed == ec.tool_install_root \o <<ec.config.bin_dirs[n], ec.cmd_name>>
             IN  IF path_exists(assumed) THEN Some(assumed)
                 ELSE get_full_executable_path_LastFirst(ec, k + 1)

\* get_full_executable_path: the loop over the bin_dirs from the k-th on.
RECURSIVE get_full_executable_path(_, _)
get_full_executable_path(ec, k) ==
    IF k > Len(ec.config.bin_dirs) THEN None
    ELSE LET assumed == ec.tool_install_root \o <<ec.config.bin_dirs[k], ec.cmd_name>>
         IN  IF path_exists(assumed) THEN Some(assumed)
             ELSE get_full_executable_path(ec, k + 1)

\* ------------------------------------------------- environment variables
\* An EnvVar of a plugin.yaml; its value is a literal or a path relative to
\* the install root, its overriding_name None or Some(name).
EnvVar(name, kind, val, overriding_name) ==
    [name |-> name, value |-> [kind |-> kind, val |-> val],
     overriding_name |-> overriding_name]

\* std::env::var_os: the value of a variable that is set, Unicode or not.
var_os(name) ==
    IF name \in DOMAIN env /\ env[name] # NotPresent THEN Some(env[name]) ELSE None

SEP == "\\"
InstallsDir == <<"i", "n", "s", "t", "a", "l", "l", "s">>

\* The text of a path below the installs directory.
PathText(path) == join(<<InstallsDir>> \o Components(path), <<SEP>>)

\* parse_value: the literal, or the install root joined with the relative path
parse_value(ec, value) ==
    IF value.kind = "Value" THEN value.val
    ELSE PathText(ec.tool_install_root \o <<value.val>>)

\* parse_env_var as a mutation would have it: the overriding variable is
\* never consulted.
parse_env_var_NoOverride(ec, envvar) == <<envvar.name, parse_value(ec, envvar.value)>>

\* parse_env_var
parse_env_var(ec, envvar) ==
    LET value ==
          IF envvar.overriding_name.tag = "None" THEN parse_value(ec, envvar.value)
          ELSE IF var_os(envvar.overriding_name.val).tag = "Some"
               THEN var_os(envvar.overriding_name.val).val
               ELSE parse_value(ec, envvar.value)
    IN  <<envvar.name, value>>

\* env_vars_to_envs
env_vars_to_envs(ec, env_vars) ==
    [i \in 1..Len(env_vars) |-> parse_env_var(ec, env_vars[i])]

\* ------------------------------------------------------ command lookup
\* find_tool: the tool of the entry, None without an entry, the error of
\* load_db when the database cannot be loaded.
find_tool(exe) ==
    LET shims == load_db(dbFile)
    IN  IF shims.tag = "Err" THEN shims
        ELSE IF exe \in DOMAIN shims.val THEN Some(shims.val[exe].tool)
        ELSE None

\* The closure find_path_for_cmd hands to run_with_executable_context.
find_path(ec) ==
    LET path == get_full_executable_path(ec, 1)
    IN  IF path.tag = "Some" THEN OkVal(path.val)
        ELSE Err("does not exist in version")

\* run_with_executable_context from the resolved command name on: the
\* tool, its plugin, its version, the context, the closure.
WithResolved(cmd_name) ==
    LET tool == find_tool(cmd_name)
    IN  IF tool.tag = "Err" THEN tool
        ELSE IF tool.tag = "None" THEN Err("No tool configured for the command")
        ELSE LET plugin == get_plugin(tool.val)
             IN  IF plugin.tag = "Err" THEN Err("Getting plugin")
                 ELSE LET version == get_version(tool.val)
                      IN  IF version.tag = "Err" THEN version
                          ELSE IF version.tag = "None" THEN Err("No version configured")
                          ELSE LET ec == ExecutableContext_new(cmd_name, tool.val,
                                                               plugin.val, version.val)
                               IN  IF ec.tag = "None"
                                   THEN Err("is configured but not installed")
                                   ELSE find_path(ec.val)

\* run_with_executable_context from the tool on, when the caller gave the
\* tool: the database is not asked.
WithTool(cmd_name, tool) ==
    LET plugin == get_plugin(tool)
    IN  IF plugin.tag = "Err" THEN Err("Getting plugin")
        ELSE LET version == get_version(tool)
             IN  IF version.tag = "Err" THEN version
                 ELSE IF version.tag = "None" THEN Err("No version configured")
                 ELSE LET ec == ExecutableContext_new(cmd_name, tool,
                                                      plugin.val, version.val)
                      IN  IF ec.tag = "None"
                          THEN Err("is configured but not installed")
                          ELSE find_path(ec.val)

\* run_with_executable_context for an unresolved command and no given tool:
\* the results it can end with over the orders of read_dir, each with the
\* name the command resolved to.
run_with_executable_context(name) ==
    IF Shims_new.tag = "Err" THEN {[resolved |-> None, ret |-> Shims_new]}
    ELSE { LET resolved == resolve_command(name, entries)
           IN  IF resolved.tag = "Err"
               THEN [resolved |-> None, ret |-> Err("resolving command")]
               ELSE IF resolved.tag = "None"
               THEN [resolved |-> None, ret |-> Err("Could not find shim named")]
               ELSE [resolved |-> resolved, ret |-> WithResolved(resolved.val)]
           : entries \in ReadDirOrders(shimsDir) }

\* The tool is looked at before the command is resolved.
find_path_for_cmd_with_tool_ToolFirst(cmd, tool) ==
    IF Shims_new.tag = "Err" THEN {[resolved |-> None, ret |-> Shims_new]}
    ELSE IF WithTool(cmd, tool).tag = "Err"
    THEN {[resolved |-> None, ret |-> WithTool(cmd, tool)]}
    ELSE { LET resolved == resolve_command(cmd, entries)
           IN  IF resolved.tag = "Err"
               THEN [resolved |-> None, ret |-> Err("resolving command")]
               ELSE IF resolved.tag = "None"
               THEN [resolved |-> None, ret |-> Err("Could not find shim named")]
               ELSE [resolved |-> resolved, ret |-> WithTool(resolved.val, tool)]
           : entries \in ReadDirOrders(shimsDir) }

\* find_path_for_cmd_with_tool: run_with_executable_context for an
\* unresolved command and a given tool, over the orders of read_dir.
find_path_for_cmd_with_tool(cmd, tool) ==
    IF Shims_new.tag = "Err" THEN {[resolved |-> None, ret |-> Shims_new]}
    ELSE { LET resolved == resolve_command(cmd, entries)
           IN  IF resolved.tag = "Err"
               THEN [resolved |-> None, ret |-> Err("resolving command")]
               ELSE IF resolved.tag = "None"
               THEN [resolved |-> None, ret |-> Err("Could not find shim named")]
               ELSE [resolved |-> resolved, ret |-> WithTool(resolved.val, tool)]
           : entries \in ReadDirOrders(shimsDir) }

\* ------------------------------------------------ the user's shim directory
MaxShimFiles == 3

NameX == <<"x">>
XExe == <<"x", DOT>> \o EXE
XCmd == <<"x", DOT>> \o CMD
XTxt == <<"x", DOT>> \o TXT
YExe == <<"y", DOT>> \o EXE

ShimFileNames == {NameX, XExe, XCmd, XTxt, YExe}
RawNames == {NameX, XExe, XCmd, XTxt, <<"y">>}


UserPutsShimFile ==
    /\ phase = "setup" /\ setup < MaxShimFiles
    /\ shimsDir.exists
    /\ \E name \in ShimFileNames \ Names(shimsDir) :
          shimsDir' = WriteFile(shimsDir, name, UserFile)
    /\ setup' = setup + 1
    /\ UNCHANGED <<versionVars, dbFile, installVars, shimExe, runs, phase, op, ret>>

ResolveCommand ==
    /\ phase = "setup"
    /\ \E exe \in RawNames, entries \in ReadDirOrders(shimsDir) :
          /\ op' = [name |-> "resolve_command", exe |-> exe]
          /\ ret' = resolve_command(exe, entries)
    /\ phase' = "done"
    /\ UNCHANGED <<versionVars, shimVars, setup>>

NextResolve == UserPutsShimFile \/ ResolveCommand

SpecResolve == Init /\ [][NextResolve]_vars

\* --------------------------------------------- saving and loading databases
MaxEntries == 2
MaxSaves == 1

DbNames == {XExe, XCmd, YExe}
ShimTypes == {"ExeShim", "CmdShim"}

\* The databases a caller may hand to save_db.
Databases ==
    UNION { [keys -> [tool : Tools, tipe : ShimTypes]] :
              keys \in {k \in SUBSET DbNames : Cardinality(k) <= MaxEntries} }

\* What a user may leave in place of the database file.
ForeignBytes == { <<>>, <<1, 0, 1>>, <<1, 1, 1, 120, 1, 1, 97, 7>> }

SaveDb ==
    /\ phase = "setup" /\ setup < MaxSaves
    /\ \E db \in Databases :
          /\ dbFile' \in save_db(db)
          /\ op' = [name |-> "save_db", db |-> db]
    /\ ret' = Ok
    /\ setup' = setup + 1
    /\ UNCHANGED <<versionVars, shimsDir, installVars, shimExe, runs, phase>>

UserOverwritesDb ==
    /\ phase = "setup"
    /\ \E bytes \in ForeignBytes : dbFile' = [exists |-> TRUE, bytes |-> bytes]
    /\ dbFile' # dbFile
    /\ op' = [name |-> "user"]
    /\ UNCHANGED <<versionVars, shimsDir, installVars, shimExe, runs, setup, phase, ret>>

LoadDb ==
    /\ phase = "setup"
    /\ op' = [name |-> "load_db", prev |-> op]
    /\ ret' = load_db(dbFile)
    /\ phase' = "done"
    /\ UNCHANGED <<versionVars, shimVars, setup>>

NextDb == SaveDb \/ UserOverwritesDb \/ LoadDb

SpecDb == Init /\ [][NextDb]_vars

\* ------------------------------------------------- the user's installs
MaxInstall == 3

V1 == <<"1">>
V2 == <<"2">>
XBat == <<"x", DOT>> \o BAT

\* What the user installs: two versions of one tool, one of the other.
VersionsOf(tool) == IF tool = ToolA THEN {V1, V2} ELSE {V1}
BinDirNames == {BIN, LIB}
ExeNames == {XExe, XCmd, XTxt, XBat}

PluginFiles ==
    { PluginDoc("malformed", FALSE, <<>>, FALSE, <<>>),
      PluginDoc("ok", TRUE, <<LIB>>, FALSE, <<>>),
      PluginDoc("ok", TRUE, <<BIN, LIB>>, FALSE, <<>>) }

Installing == phase = "setup" /\ setup < MaxInstall /\ installs.exists

\* mkdir -p <installs>/<tool>/<version>/<dir>, then a file in it
UserInstallsFile ==
    /\ Installing
    /\ \E t \in Tools, d \in BinDirNames, n \in ExeNames :
       \E v \in VersionsOf(t) :
          /\ t \notin installs.toolFiles
          /\ <<t, v>> \notin installs.verFiles
          /\ <<t, v, d, n>> \notin installs.exes
          /\ installs' = [installs EXCEPT
                            !.toolDirs = @ \cup {t},
                            !.verDirs = @ \cup {<<t, v>>},
                            !.binDirs = @ \cup {<<t, v, d>>},
                            !.exes = @ \cup {<<t, v, d, n>>}]
    /\ setup' = setup + 1
    /\ UNCHANGED <<versionVars, shimsDir, dbFile, plugins, shimExe, runs, phase, op, ret>>

\* mkdir -p <installs>/<tool>/<version>
UserMakesVersionDir ==
    /\ Installing
    /\ \E t \in Tools : \E v \in VersionsOf(t) :
          /\ t \notin installs.toolFiles
          /\ <<t, v>> \notin installs.verDirs \cup installs.verFiles
          /\ installs' = [installs EXCEPT
                            !.toolDirs = @ \cup {t},
                            !.verDirs = @ \cup {<<t, v>>}]
    /\ setup' = setup + 1
    /\ UNCHANGED <<versionVars, shimsDir, dbFile, plugins, shimExe, runs, phase, op, ret>>

\* a plain file in <installs>/<tool>
UserPutsFileInTool ==
    /\ Installing
    /\ \E t \in Tools : \E v \in VersionsOf(t) :
          /\ t \notin installs.toolFiles
          /\ <<t, v>> \notin installs.verDirs \cup installs.verFiles
          /\ installs' = [installs EXCEPT
                            !.toolDirs = @ \cup {t},
                            !.verFiles = @ \cup {<<t, v>>}]
    /\ setup' = setup + 1
    /\ UNCHANGED <<versionVars, shimsDir, dbFile, plugins, shimExe, runs, phase, op, ret>>

\* a plain file in <installs>
UserPutsFileInInstalls ==
    /\ Installing
    /\ \E t \in Tools :
          /\ t \notin installs.toolDirs \cup installs.toolFiles
          /\ installs' = [installs EXCEPT !.toolFiles = @ \cup {t}]
    /\ setup' = setup + 1
    /\ UNCHANGED <<versionVars, shimsDir, dbFile, plugins, shimExe, runs, phase, op, ret>>

UserWritesPlugin ==
    /\ phase = "setup" /\ setup < MaxInstall
    /\ \E t \in Tools, file \in PluginFiles :
          /\ plugins[t] # file
          /\ plugins' = [plugins EXCEPT ![t] = file]
    /\ setup' = setup + 1
    /\ UNCHANGED <<versionVars, shimsDir, dbFile, installs, shimExe, runs, phase, op, ret>>

\* the installs directory itself removed while it is empty
UserRemovesInstalls ==
    /\ Installing
    /\ installs = EmptyInstalls
    /\ installs' = [installs EXCEPT !.exists = FALSE]
    /\ setup' = setup + 1
    /\ UNCHANGED <<versionVars, shimsDir, dbFile, plugins, shimExe, runs, phase, op, ret>>

UserInstalls ==
    \/ UserInstallsFile
    \/ UserMakesVersionDir
    \/ UserPutsFileInTool
    \/ UserPutsFileInInstalls
    \/ UserWritesPlugin
    \/ UserRemovesInstalls

\* Shims::new, then generate_db_from_installed_tools
GenerateDb ==
    /\ phase = "setup"
    /\ op' = [name |-> "generate_db"]
    /\ ret' \in (IF Shims_new.tag = "Err" THEN {Shims_new}
                 ELSE generate_db_from_installed_tools)
    /\ phase' = "done"
    /\ UNCHANGED <<versionVars, shimVars, setup>>

NextScan == UserInstalls \/ GenerateDb

SpecScan == Init /\ [][NextScan]_vars

\* ------------------------------------------------------- running reshim
MaxRuns == 2

\* a release of a tool with one executable in its default bin directory
UserInstallsRelease ==
    /\ Installing
    /\ \E t \in Tools, n \in {XExe, XCmd} : \E v \in VersionsOf(t) :
          /\ <<t, v, BIN, n>> \notin installs.exes
          /\ installs' = [installs EXCEPT
                            !.toolDirs = @ \cup {t},
                            !.verDirs = @ \cup {<<t, v>>},
                            !.binDirs = @ \cup {<<t, v, BIN>>},
                            !.exes = @ \cup {<<t, v, BIN, n>>}]
    /\ setup' = setup + 1
    /\ UNCHANGED <<versionVars, shimsDir, dbFile, plugins, shimExe, runs, phase, op, ret>>

UserRemovesShimExe ==
    /\ phase = "setup" /\ setup < MaxInstall
    /\ shimExe
    /\ shimExe' = FALSE
    /\ setup' = setup + 1
    /\ UNCHANGED <<versionVars, shimsDir, dbFile, installVars, runs, phase, op, ret>>

\* asdfw reshim [--cleanup]
Reshim ==
    /\ phase = "setup" /\ runs < MaxRuns
    /\ \E cleanup \in BOOLEAN : \E out \in reshim(cleanup) :
          /\ op' = [name |-> "reshim", cleanup |-> cleanup]
          /\ ret' = out.ret
          /\ dbFile' = out.file
          /\ shimsDir' = out.dir
    /\ runs' = runs + 1
    /\ UNCHANGED <<versionVars, installVars, shimExe, setup, phase>>

NextReshim ==
    \/ UserInstallsRelease
    \/ UserMakesVersionDir
    \/ UserPutsShimFile
    \/ UserRemovesShimExe
    \/ Reshim

SpecReshim == Init /\ [][NextReshim]_vars

\* ------------------------------------- installs, uninstalls and reshims
\* rm -r <installs>/<tool>/<version>
UserUninstallsRelease ==
    /\ Installing
    /\ \E vd \in installs.verDirs :
          installs' = [installs EXCEPT
                         !.verDirs = @ \ {vd},
                         !.binDirs = {d \in @ : <<d[1], d[2]>> # vd},
                         !.exes = {e \in @ : <<e[1], e[2]>> # vd}]
    /\ setup' = setup + 1
    /\ UNCHANGED <<versionVars, shimsDir, dbFile, plugins, shimExe, runs, phase, op, ret>>

NextHistory ==
    \/ UserInstallsRelease
    \/ UserUninstallsRelease
    \/ UserMakesVersionDir
    \/ UserPutsFileInInstalls
    \/ Reshim

SpecHistory == Init /\ [][NextHistory]_vars

\* ------------------------------------------- the upward walk, turn by turn
MaxWalkFiles == 2

WalkFiles == {<<>>} \cup {AppendLine(NoFile, line) : line \in UserLines \ {<<"a", SP, "2">>}}

\* a .tool-versions file written into a directory that has none
UserPlacesLocal ==
    /\ phase = "setup" /\ setup < MaxWalkFiles
    /\ \E d \in Depths, content \in WalkFiles :
          /\ local[d] = NoFile
          /\ local' = [local EXCEPT ![d] = content]
    /\ setup' = setup + 1
    /\ UNCHANGED <<env, global, phase, op, ret, shimVars>>

\* get_version_from_current_dir up to the loop: path is the current
\* directory; `visited` lists the directories the loop has looked into.
StartWalk ==
    /\ phase = "setup"
    /\ \E tool \in Tools, start \in Depths :
          op' = [name |-> "walk", tool |-> tool, start |-> start,
                 path |-> DirPath(start), visited |-> <<>>]
    /\ phase' = "walking"
    /\ UNCHANGED <<versionVars, shimVars, setup, ret>>

\* One turn of the loop of get_version_from_current_dir; the path, the
\* file at it and the result of searching it are each taken once.
WalkStep ==
    /\ phase = "walking"
    /\ Len(op.visited) <= MaxDepth + 1
    /\ \E path \in {push(op.path, FILE_NAME)} :
       \E content \in {FileAt(path)} :
       \E found \in {IF content # NoFile
                     THEN search_tool_in_file(op.tool, content)
                     ELSE None} :
       LET end == LoopEnd(path)
           seen == Append(op.visited, op.path)
       IN  IF found.tag # "None"
           THEN /\ ret' = found
                /\ phase' = "done"
                /\ op' = [op EXCEPT !.visited = seen]
           ELSE IF ~end.again
           THEN /\ ret' = None
                /\ phase' = "done"
                /\ op' = [op EXCEPT !.visited = seen]
           ELSE /\ op' = [op EXCEPT !.visited = seen, !.path = end.path]
                /\ UNCHANGED <<ret, phase>>
    /\ UNCHANGED <<versionVars, shimVars, setup>>

NextWalk ==
    \/ UserPlacesLocal
    \/ StartWalk
    \/ WalkStep

\* The loop is sequential code: a turn that can be taken is taken.
SpecWalk == Init /\ [][NextWalk]_vars /\ WF_vars(WalkStep)

\* ------------------------------- a reshim, call by call, beside a lookup
\* No lookup has been made beside the running reshim.
NoLookup == [cmd |-> <<>>, resolved |-> None, tool |-> None, at |-> "none"]

\* The step create_shims starts with, as a mutation would have it: the
\* directory is cleaned up whatever the flag.
FirstStep_AlwaysCleans(cleanup) == "remove_dir_all"

\* The step create_shims starts with.
FirstStep(cleanup) == IF cleanup THEN "remove_dir_all" ELSE "load_db"

\* asdfw reshim [--cleanup] begins: Shims::new.
StartReshim ==
    /\ phase = "setup" /\ runs < MaxRuns
    /\ \E cleanup \in BOOLEAN :
          IF Shims_new.tag = "Err"
          THEN /\ op' = [name |-> "reshim", cleanup |-> cleanup, pc |-> "done",
                         before |-> Names(shimsDir), db |-> <<>>, todo |-> {},
                         lookup |-> NoLookup]
               /\ ret' = Shims_new
               /\ phase' = "setup"
          ELSE /\ op' = [name |-> "reshim", cleanup |-> cleanup, pc |-> "scan",
                         before |-> Names(shimsDir), db |-> <<>>, todo |-> {},
                         lookup |-> NoLookup]
               /\ ret' = None
               /\ phase' = "reshimming"
    /\ runs' = runs + 1
    /\ UNCHANGED <<versionVars, shimsDir, dbFile, installVars, shimExe, setup>>

\* The running reshim is at the call `pc`.
At(pc) == phase = "reshimming" /\ op.pc = pc

\* The reshim returns `result`.
Return(result) ==
    /\ ret' = result
    /\ phase' = "setup"
    /\ op' = [op EXCEPT !.pc = "done"]

\* generate_db_from_installed_tools
ReshimScans ==
    /\ At("scan")
    /\ \E r \in generate_db_from_installed_tools :
          IF r.tag = "Err" THEN Return(r)
          ELSE /\ op' = [op EXCEPT !.pc = "save_db", !.db = r.val]
               /\ UNCHANGED <<ret, phase>>
    /\ UNCHANGED <<versionVars, shimVars, setup>>

\* save_db
ReshimSaves ==
    /\ At("save_db")
    /\ dbFile' \in save_db(op.db)
    /\ op' = [op EXCEPT !.pc = FirstStep(op.cleanup)]
    /\ UNCHANGED <<versionVars, shimsDir, installVars, shimExe, runs, setup, ret, phase>>

\* create_shims: fs::remove_dir_all
ReshimRemovesDir ==
    /\ At("remove_dir_all")
    /\ IF ~shimsDir.exists
       THEN Return(Err("cleaning up shims directory")) /\ UNCHANGED shimsDir
       ELSE /\ shimsDir' = NoDir
            /\ op' = [op EXCEPT !.pc = "create_dir"]
            /\ UNCHANGED <<ret, phase>>
    /\ UNCHANGED <<versionVars, dbFile, installVars, shimExe, runs, setup>>

\* create_shims: fs::create_dir
ReshimCreatesDir ==
    /\ At("create_dir")
    /\ shimsDir' = EmptyDir
    /\ op' = [op EXCEPT !.pc = "load_db"]
    /\ UNCHANGED <<versionVars, dbFile, installVars, shimExe, runs, setup, ret, phase>>

\* create_shims: load_db
ReshimLoads ==
    /\ At("load_db")
    /\ LET db == load_db(dbFile)
       IN  IF db.tag = "Err" THEN Return(db)
           ELSE /\ op' = [op EXCEPT !.pc = "write", !.db = db.val, !.todo = DOMAIN db.val]
                /\ UNCHANGED <<ret, phase>>
    /\ UNCHANGED <<versionVars, shimVars, setup>>

\* create_shims: one turn of the loop over the database, or its end
ReshimWrites ==
    /\ At("write")
    /\ IF op.todo = {}
       THEN Return(Ok) /\ UNCHANGED shimsDir
       ELSE \E exe \in op.todo :
               LET r == write_shim(shimsDir, exe, op.db[exe])
               IN  IF r.ret.tag = "Err"
                   THEN Return(r.ret) /\ UNCHANGED shimsDir
                   ELSE /\ shimsDir' = r.dir
                        /\ op' = [op EXCEPT !.todo = @ \ {exe}]
                        /\ UNCHANGED <<ret, phase>>
    /\ UNCHANGED <<versionVars, dbFile, installVars, shimExe, runs, setup>>

\* Another process resolves a command and asks for its tool while the
\* reshim is between two of its calls.
LooksUp ==
    /\ phase = "reshimming"
    /\ op.lookup = NoLookup
    /\ \E cmd \in {XExe, XCmd} : \E entries \in ReadDirOrders(shimsDir) :
          op' = [op EXCEPT !.lookup = [cmd |-> cmd,
                                       resolved |-> resolve_command(cmd, entries),
                                       tool |-> find_tool(cmd),
                                       at |-> op.pc]]
    /\ UNCHANGED <<versionVars, shimVars, setup, ret, phase>>

NextRace ==
    \/ UserInstallsRelease
    \/ StartReshim
    \/ ReshimScans
    \/ ReshimSaves
    \/ ReshimRemovesDir
    \/ ReshimCreatesDir
    \/ ReshimLoads
    \/ ReshimWrites
    \/ LooksUp

SpecRace == Init /\ [][NextRace]_vars

\* ------------------------------ two saves on one file, call by call
\* The map a writer hands to save_file, as a mutation would have it: the
\* file is loaded anew right before it is written.
Held_LoadsAnew(w, content) ==
    insert(load_file(content).data, w.tool, w.version)

\* The map a writer hands to save_file: the one it loaded, with its pair.
Held(w, content) == insert(w.data, w.tool, w.version)

\* Two processes run `asdfw global <tool> <version>` for different tools.
StartSaves ==
    /\ phase = "setup"
    /\ \E v1, v2 \in SaveVersions :
          op' = [name |-> "set_tool_version", original |-> global, log |-> <<>>,
                 w |-> <<[tool |-> ToolA, version |-> v1, pc |-> "load_file",
                          data |-> EmptyData],
                         [tool |-> ToolB, version |-> v2, pc |-> "load_file",
                          data |-> EmptyData]>>]
    /\ phase' = "saving"
    /\ UNCHANGED <<versionVars, shimVars, setup, ret>>

\* The phase after a call of writer i that leaves it at `pc`.
PhaseAfter(i, pc) ==
    IF pc \in {"done", "failed"} /\ op.w[3 - i].pc \in {"done", "failed"}
    THEN "done" ELSE "saving"

\* set_tool_version of writer i: load_file
WriterLoads(i) ==
    /\ phase = "saving" /\ op.w[i].pc = "load_file"
    /\ LET loaded == load_file(global)
           pc == IF loaded.ok THEN "save_file" ELSE "failed"
       IN  /\ op' = [op EXCEPT !.w[i].pc = pc, !.w[i].data = loaded.data,
                               !.log = Append(@, <<i, "load_file">>)]
           /\ phase' = PhaseAfter(i, pc)
           /\ ret' = IF loaded.ok THEN ret ELSE Err("Invalid tools versions line")
    /\ UNCHANGED <<versionVars, shimVars, setup>>

\* set_tool_version of writer i: insert and save_file
WriterSaves(i) ==
    /\ phase = "saving" /\ op.w[i].pc = "save_file"
    /\ LET data == Held(op.w[i], global)
       IN  \E order \in IterationOrders(DOMAIN data) :
              global' = save_file(data, order)
    /\ op' = [op EXCEPT !.w[i].pc = "done", !.log = Append(@, <<i, "save_file">>)]
    /\ phase' = PhaseAfter(i, "done")
    /\ ret' = IF phase' = "done" THEN Ok ELSE ret
    /\ UNCHANGED <<env, local, shimVars, setup>>

NextSaves ==
    \/ UserWritesGlobal
    \/ UserTouchesGlobal
    \/ StartSaves
    \/ \E i \in {1, 2} : WriterLoads(i)
    \/ \E i \in {1, 2} : WriterSaves(i)

SpecSaves == Init /\ [][NextSaves]_vars

\* ----------------------------------------------------- parsing one line
MaxLineLen == 4

LineChars == {"a", "1", SP}
Lines == UNION { [1..n -> LineChars] : n \in 0..MaxLineLen }

ParseLine ==
    /\ phase = "setup"
    /\ \E line \in Lines :
          /\ op' = [name |-> "parse_line", line |-> line]
          /\ ret' = parse_line(line)
    /\ phase' = "done"
    /\ UNCHANGED <<versionVars, shimVars, setup>>

NextParse == ParseLine

SpecParse == Init /\ [][NextParse]_vars

\* ------------------------------------------------ executable contexts
\* a command file in a bin directory of a version of a tool
UserInstallsCommand ==
    /\ Installing
    /\ \E t \in Tools, d \in BinDirNames : \E v \in VersionsOf(t) :
          /\ t \notin installs.toolFiles
          /\ <<t, v>> \notin installs.verFiles
          /\ <<t, v, d, XExe>> \notin installs.exes
          /\ installs' = [installs EXCEPT
                            !.toolDirs = @ \cup {t},
                            !.verDirs = @ \cup {<<t, v>>},
                            !.binDirs = @ \cup {<<t, v, d>>},
                            !.exes = @ \cup {<<t, v, d, XExe>>}]
    /\ setup' = setup + 1
    /\ UNCHANGED <<versionVars, shimsDir, dbFile, plugins, shimExe, runs, phase, op, ret>>

\* The versions a lookup may resolve to: any string.
ContextVersions == {V1, V2, <<>>}
ContextCommands == {XExe, XCmd}

\* Plugin::new for the tool, then ExecutableContext::new
NewContext ==
    /\ phase = "setup"
    /\ \E cmd \in ContextCommands, tool \in Tools, version \in ContextVersions :
          /\ Plugin_new(tool).tag = "Ok"
          /\ op' = [name |-> "ExecutableContext::new", cmd |-> cmd,
                    tool |-> tool, version |-> version]
          /\ ret' = ExecutableContext_new(cmd, tool, Plugin_new(tool).val, version)
    /\ phase' = "done"
    /\ UNCHANGED <<versionVars, shimVars, setup>>

\* get_full_executable_path of a context that ExecutableContext::new made
GetFullExecutablePath ==
    /\ phase = "setup"
    /\ \E cmd \in ContextCommands, tool \in Tools, version \in ContextVersions :
          /\ Plugin_new(tool).tag = "Ok"
          /\ LET ec == ExecutableContext_new(cmd, tool, Plugin_new(tool).val, version)
             IN  /\ ec.tag = "Some"
                 /\ op' = [name |-> "get_full_executable_path", ec |-> ec.val]
                 /\ ret' = get_full_executable_path(ec.val, 1)
    /\ phase' = "done"
    /\ UNCHANGED <<versionVars, shimVars, setup>>

NextContext ==
    \/ UserInstallsCommand
    \/ UserMakesVersionDir
    \/ UserPutsFileInTool
    \/ UserWritesPlugin
    \/ NewContext
    \/ GetFullExecutablePath

SpecContext == Init /\ [][NextContext]_vars

\* ------------------------------------------ plugin files and environments
E1 == EnvVar(<<"H">>, "Value", <<"v">>, None)
E2 == EnvVar(<<"H">>, "RelativeInstallPath", LIB, Some(<<"O">>))
E3 == EnvVar(<<"P">>, "Value", <<"w">>, Some(<<"O">>))
E4 == EnvVar(<<"P">>, "RelativeInstallPath", LIB, None)

EnvVarLists == { <<>>, <<E1>>, <<E2>>, <<E3, E1>>, <<E4, E3>> }

\* The documents a user may write as plugin.yaml.
PluginDocs ==
    { PluginDoc("malformed", FALSE, <<>>, FALSE, <<>>) }
    \cup { PluginDoc("ok", FALSE, <<>>, FALSE, <<>>) }
    \cup { PluginDoc("ok", FALSE, <<>>, TRUE, ev) : ev \in EnvVarLists }
    \cup { PluginDoc("ok", TRUE, bd, FALSE, <<>>) : bd \in {<<>>, <<LIB>>} }
    \cup { PluginDoc("ok", TRUE, bd, TRUE, ev) : bd \in {<<>>, <<LIB>>}, ev \in EnvVarLists }

UserWritesPluginDoc ==
    /\ phase = "setup" /\ setup < MaxInstall
    /\ \E t \in Tools, file \in PluginDocs :
          /\ plugins[t] # file
          /\ plugins' = [plugins EXCEPT ![t] = file]
    /\ setup' = setup + 1
    /\ UNCHANGED <<versionVars, shimsDir, dbFile, installs, shimExe, runs, phase, op, ret>>

UserSetsOverride ==
    /\ phase = "setup" /\ setup < MaxInstall
    /\ \E n \in OverrideNames, v \in EnvValues :
          /\ env[n] # v
          /\ env' = [env EXCEPT ![n] = v]
    /\ setup' = setup + 1
    /\ UNCHANGED <<local, global, shimVars, phase, op, ret>>

\* Plugin::new
PluginNew ==
    /\ phase = "setup"
    /\ \E tool \in Tools :
          /\ op' = [name |-> "Plugin::new", tool |-> tool]
          /\ ret' = Plugin_new(tool)
    /\ phase' = "done"
    /\ UNCHANGED <<versionVars, shimVars, setup>>

\* env_vars_to_envs of a context, for the env_vars of its plugin
EnvVarsToEnvs ==
    /\ phase = "setup"
    /\ \E tool \in Tools, version \in ContextVersions :
          /\ Plugin_new(tool).tag = "Ok"
          /\ LET ec == ExecutableContext_new(XExe, tool, Plugin_new(tool).val, version)
             IN  /\ ec.tag = "Some"
                 /\ op' = [name |-> "env_vars_to_envs", ec |-> ec.val]
                 /\ ret' = env_vars_to_envs(ec.val, ec.val.config.env_vars)
    /\ phase' = "done"
    /\ UNCHANGED <<versionVars, shimVars, setup>>

NextPlugin ==
    \/ UserWritesPluginDoc
    \/ UserSetsOverride
    \/ UserMakesVersionDir
    \/ PluginNew
    \/ EnvVarsToEnvs

SpecPlugin == Init /\ [][NextPlugin]_vars

\* ------------------------------------------------------ creating shims
\* create_shims on the database file and the shim directory as they are;
\* the operation keeps the directory it found.
CreateShims ==
    /\ phase = "setup"
    /\ \E cleanup \in BOOLEAN : \E out \in create_shims(cleanup, shimsDir, dbFile) :
          /\ op' = [name |-> "create_shims", cleanup |-> cleanup, before |-> shimsDir]
          /\ ret' = out.ret
          /\ shimsDir' = out.dir
    /\ phase' = "done"
    /\ UNCHANGED <<versionVars, dbFile, installVars, shimExe, runs, setup>>

NextShims ==
    \/ SaveDb
    \/ UserOverwritesDb
    \/ UserPutsShimFile
    \/ UserRemovesShimExe
    \/ CreateShims

SpecShims == Init /\ [][NextShims]_vars

\* -------------------------------------------------- looking up a command
\* asdfw which <cmd>
FindPathForCmd ==
    /\ phase = "setup"
    /\ \E cmd \in RawNames : \E out \in run_with_executable_context(cmd) :
          /\ op' = [name |-> "find_path_for_cmd", cmd |-> cmd, resolved |-> out.resolved]
          /\ ret' = out.ret
    /\ phase' = "done"
    /\ UNCHANGED <<versionVars, shimVars, setup>>

NextLookup ==
    \/ UserInstallsCommand
    \/ UserMakesVersionDir
    \/ UserRemovesInstalls
    \/ UserPutsShimFile
    \/ UserSetsEnv
    \/ UserWritesGlobal
    \/ UserTouchesGlobal
    \/ Reshim
    \/ FindPathForCmd

SpecLookup == Init /\ [][NextLookup]_vars

\* asdfw which <cmd> for a tool the caller names
FindPathForCmdWithTool ==
    /\ phase = "setup"
    /\ \E cmd \in RawNames, tool \in Tools :
         \E out \in find_path_for_cmd_with_tool(cmd, tool) :
          /\ op' = [name |-> "find_path_for_cmd_with_tool", cmd |-> cmd,
                    tool |-> tool, resolved |-> out.resolved]
          /\ ret' = out.ret
    /\ phase' = "done"
    /\ UNCHANGED <<versionVars, shimVars, setup>>

NextLookupTool ==
    \/ UserInstallsCommand
    \/ UserRemovesInstalls
    \/ UserPutsShimFile
    \/ UserWritesGlobal
    \/ Reshim
    \/ FindPathForCmdWithTool

SpecLookupTool == Init /\ [][NextLookupTool]_vars

\* ------------------------------------------- what the claims speak about
Done(name) == phase = "done" /\ op.name = name

\* A line that records a version of the tool: the tool, one space, and a
\* non-empty version without a space.
LineDefines(line, tool) ==
    /\ Len(line) >= Len(tool) + 2
    /\ SubSeq(line, 1, Len(tool)) = tool
    /\ line[Len(tool) + 1] = SP
    /\ \A j \in (Len(tool) + 2)..Len(line) : line[j] # SP

\* A line of exactly two non-empty tokens separated by one space.
WellFormedLine(line) ==
    /\ Cardinality({i \in 1..Len(line) : line[i] = SP}) = 1
    /\ line[1] # SP
    /\ line[Len(line)] # SP

DefiningLines(content, tool) ==
    IF content = NoFile THEN {}
    ELSE {i \in 1..Len(ReadLines(content)) : LineDefines(ReadLines(content)[i], tool)}

Recorded(content, tool) == DefiningLines(content, tool) # {}

Min(S) == CHOOSE x \in S : \A y \in S : x <= y
Max(S) == CHOOSE x \in S : \A y \in S : x >= y

\* The version on the first line of the file that records the tool.
RecordedVersion(content, tool) ==
    LET line == ReadLines(content)[Min(DefiningLines(content, tool))]
    IN  SubSeq(line, Len(tool) + 2, Len(line))

\* No malformed line stands before the first line that records the tool
\* (anywhere in the file, when no line records it).
CleanBefore(content, tool) ==
    \/ content = NoFile
    \/ \A i \in 1..Len(ReadLines(content)) :
          (\A j \in DefiningLines(content, tool) : i <= j)
              => WellFormedLine(ReadLines(content)[i])

EnvName(tool) ==
    CASE tool = ToolA -> <<"A", "S", "D", "F", "W", "_", "A", "_", "V", "E", "R", "S", "I", "O", "N">>
      [] tool = ToolB -> <<"A", "S", "D", "F", "W", "_", "B", "_", "V", "E", "R", "S", "I", "O", "N">>

EnvValue(tool) ==
    IF EnvName(tool) \in DOMAIN env THEN env[EnvName(tool)] ELSE NotPresent

EnvSet(tool) == EnvValue(tool) # NotPresent
EnvUsable(tool) == EnvSet(tool) /\ EnvValue(tool) # NotUnicode

DefiningDirs(tool) == {d \in Depths : Recorded(local[d], tool)}
LocalDefines(tool) == DefiningDirs(tool) # {}
\* The current directory is the deepest one: the nearest is the deepest.
NearestDir(tool) == Max(DefiningDirs(tool))
NearestVersion(tool) == RecordedVersion(local[NearestDir(tool)], tool)

\* The walk meets no malformed line before it finds the tool.
WalkClean(tool) ==
    \A d \in Depths :
        (LocalDefines(tool) => d >= NearestDir(tool)) => CleanBefore(local[d], tool)

\* C1 as the specification states it: the environment variable whenever it
\* is set, otherwise the nearest local record whenever there is one,
\* otherwise the global record.
C1_Claim ==
    Done("get_version") =>
        LET t == op.tool
        IN  IF EnvSet(t) THEN ret = Some(EnvValue(t))
            ELSE IF LocalDefines(t) THEN ret = Some(NearestVersion(t))
            ELSE IF Recorded(global, t) THEN ret = Some(RecordedVersion(global, t))
            ELSE TRUE

\* The source of highest priority that defines the tool.
HighestSource(tool) ==
    IF EnvUsable(tool) THEN EnvValue(tool)
    ELSE IF LocalDefines(tool) THEN NearestVersion(tool)
    ELSE RecordedVersion(global, tool)

\* C1, amended: get_version returns the value of ASDFW_<TOOL>_VERSION
\* whenever it is set to valid Unicode; otherwise the nearest local record
\* whenever there is one and the walk reads no malformed line before it;
\* otherwise the global record when neither the walk nor the global file
\* puts a malformed line before it.  A version that is returned is never
\* one of a lower-priority source while a higher-priority source defines
\* the tool.
C1_Cascade ==
    Done("get_version") =>
        LET t == op.tool
        IN  /\ EnvUsable(t) => ret = Some(EnvValue(t))
            /\ (~EnvUsable(t) /\ LocalDefines(t) /\ WalkClean(t))
                  => ret = Some(NearestVersion(t))
            /\ (~EnvUsable(t) /\ ~LocalDefines(t) /\ Recorded(global, t)
                    /\ WalkClean(t) /\ CleanBefore(global, t))
                  => ret = Some(RecordedVersion(global, t))
            /\ ret.tag = "Some"
                  => /\ EnvUsable(t) \/ LocalDefines(t) \/ Recorded(global, t)
                     /\ ret.val = HighestSource(t)

\* The environment, a local file and the global file all define the tool,
\* and get_version has returned the environment's value.
C1_Witness ==
    /\ Done("get_version")
    /\ EnvUsable(op.tool)
    /\ LocalDefines(op.tool)
    /\ Recorded(global, op.tool)
    /\ ret = Some(EnvValue(op.tool))
    /\ ret.val # NearestVersion(op.tool)

\* C2 as the specification states it: the walk returns the record of the
\* nearest directory whose file defines the tool; a nearer directory whose
\* file does not define the tool, or that has no file, does not stop it.
C2_Claim ==
    (Done("get_version") /\ ~EnvUsable(op.tool) /\ LocalDefines(op.tool))
        => ret = Some(NearestVersion(op.tool))

\* C2, amended: the walk returns the record of the nearest directory whose
\* file defines the tool, whatever farther ancestors define; a nearer
\* directory that has no file, or whose file has only well-formed lines,
\* none of them for the tool, does not stop it; and in the nearest defining
\* file the lines before the tool's line are well-formed.
C2_NearestWins ==
    (Done("get_version") /\ ~EnvUsable(op.tool) /\ LocalDefines(op.tool)
        /\ WalkClean(op.tool))
        => /\ ret = Some(NearestVersion(op.tool))
           /\ get_version_from_current_dir(op.tool) = ret

\* The current directory has a file without the tool, its parent defines
\* the tool and a farther ancestor defines another version of it: the
\* parent's version has been returned.
C2_Witness ==
    /\ Done("get_version")
    /\ ~EnvUsable(op.tool)
    /\ local[MaxDepth] # NoFile
    /\ ~Recorded(local[MaxDepth], op.tool)
    /\ LocalDefines(op.tool)
    /\ NearestDir(op.tool) = MaxDepth - 1
    /\ \E d \in 0..(MaxDepth - 2) :
          /\ Recorded(local[d], op.tool)
          /\ RecordedVersion(local[d], op.tool) # NearestVersion(op.tool)
    /\ ret = Some(NearestVersion(op.tool))

\* C3: with the environment variable unset, no local file on the path
\* defining the tool and the global file not defining it (or missing),
\* get_version returns None and not an error.
C3_Claim ==
    (Done("get_version") /\ ~EnvSet(op.tool) /\ ~LocalDefines(op.tool)
        /\ ~Recorded(global, op.tool))
        => ret = None

\* The file a save rewrites, before the step and after it.
TargetBefore == IF op'.name = "save_local" THEN local[MaxDepth] ELSE global
TargetAfter == IF op'.name = "save_local" THEN local'[MaxDepth] ELSE global'

SaveSucceeds ==
    /\ phase = "setup" /\ phase' = "done"
    /\ op'.name \in {"save_local", "save_global"}
    /\ ret' = Ok

\* C10: after a successful save_local(t, v) or save_global(t, v) on a
\* readable file, every other tool the file resolved to a version still
\* resolves to that version, and no other tool gains or loses an entry.
C10_Claim ==
    [][(SaveSucceeds /\ TargetBefore # NoFile) =>
          \A u \in Tools \ {op'.tool} :
             /\ search_tool_in_file(u, TargetBefore).tag = "Some"
                   => search_tool_in_file(u, TargetAfter)
                          = search_tool_in_file(u, TargetBefore)
             /\ Recorded(TargetBefore, u) <=> Recorded(TargetAfter, u)]_vars

\* The raw name with a known executable extension appended.
Appended(exe) == {exe \o <<DOT>> \o ext : ext \in {EXE, CMD}}

\* C8: resolve_command(x) returns x whenever a file named x is in the shim
\* directory, whatever else is there; it falls back to an extended name
\* only when there is no file named x, and returns None when neither x nor
\* an extended name is there (for a raw name that carries an extension the
\* extended names are the subject of C9).
C8_Claim ==
    Done("resolve_command") =>
        /\ op.exe \in Names(shimsDir) => ret = Some(op.exe)
        /\ (ret.tag = "Some" /\ ret.val # op.exe) => op.exe \notin Names(shimsDir)
        /\ (extension(op.exe) = None /\ op.exe \notin Names(shimsDir)
               /\ Appended(op.exe) \cap Names(shimsDir) = {})
              => ret = None

\* C9: a name resolve_command returns that differs from the raw name is the
\* raw name with one known executable extension appended.
C9_Claim ==
    (Done("resolve_command") /\ ret.tag = "Some" /\ ret.val # op.exe)
        => ret.val \in Appended(op.exe)

\* C7: load_db right after save_db(db) returns a map equal to db: the same
\* keys, and for every key the same tool and the same shim kind.
C7_RoundTrip ==
    (Done("load_db") /\ op.prev.name = "save_db")
        => /\ ret.tag = "Ok"
           /\ DOMAIN ret.val = DOMAIN op.prev.db
           /\ \A k \in DOMAIN op.prev.db :
                 /\ ret.val[k].tool = op.prev.db[k].tool
                 /\ ret.val[k].tipe = op.prev.db[k].tipe

C7_Witness ==
    /\ Done("load_db") /\ op.prev.name = "save_db"
    /\ ret.tag = "Ok"
    /\ Cardinality(DOMAIN ret.val) = MaxEntries
    /\ \E k \in DOMAIN ret.val : ret.val[k].tipe = "CmdShim"
    /\ \E k \in DOMAIN ret.val : ret.val[k].tool = ToolB

\* A file name that ends in a dot and a shimmable extension, after a stem.
Shimmable(name) ==
    \E ext \in {EXE, CMD} :
        /\ Len(name) > Len(ext) + 1
        /\ SubSeq(name, Len(name) - Len(ext), Len(name)) = <<DOT>> \o ext

\* The bin_dirs a tool's plugin.yaml configures: "bin" without a file or
\* without a list in it, none when the file does not parse.
ConfiguredBinDirs(tool) ==
    IF plugins[tool].state = "malformed" THEN {}
    ELSE IF plugins[tool].state = "absent" \/ ~plugins[tool].has_bin_dirs
            \/ plugins[tool].bin_dirs = <<>> THEN {BIN}
    ELSE {plugins[tool].bin_dirs[i] : i \in 1..Len(plugins[tool].bin_dirs)}

\* The shimmable file names directly inside a configured bin_dir of a
\* version directory of the tool.
Found(tool) ==
    IF tool \notin installs.toolDirs THEN {}
    ELSE { e[4] : e \in { x \in installs.exes :
                            /\ x[1] = tool
                            /\ <<x[1], x[2]>> \in installs.verDirs
                            /\ x[3] \in ConfiguredBinDirs(tool)
                            /\ Shimmable(x[4]) } }

ConflictInTree == \E t, u \in Tools : t # u /\ Found(t) \cap Found(u) # {}

IsConflict(r) == r.tag = "Err" /\ r.val[1] = "appears in two tools"

\* Nothing in the tree stops the scan: no plain file among the tools, and
\* every tool with a version directory has a plugin.yaml that parses and
\* every configured bin_dir in every version directory.
Readable ==
    /\ installs.exists
    /\ installs.toolFiles = {}
    /\ \A vd \in installs.verDirs :
          /\ plugins[vd[1]].state # "malformed"
          /\ \A d \in ConfiguredBinDirs(vd[1]) : <<vd[1], vd[2], d>> \in installs.binDirs

\* C4: generate_db_from_installed_tools fails with the conflict error,
\* naming the file and both tools, exactly when two different tools each
\* contain a shimmable file of the same name.
C4_Claim ==
    Done("generate_db") =>
        /\ IsConflict(ret) <=> ConflictInTree
        /\ IsConflict(ret) =>
              /\ ret.val[3] # ret.val[4]
              /\ ret.val[2] \in Found(ret.val[3]) \cap Found(ret.val[4])

\* C4, amended: the conflict error is returned only when two different
\* tools each contain the named shimmable file; a tree with such a pair
\* never yields a map, and yields the conflict error when nothing else stops
\* the scan; the same name in several versions or bin_dirs of one tool is
\* no conflict and gets one entry owned by that tool.
C4_ConflictOnly ==
    Done("generate_db") =>
        /\ IsConflict(ret) =>
              /\ ret.val[3] # ret.val[4]
              /\ ret.val[2] \in Found(ret.val[3]) \cap Found(ret.val[4])
        /\ ConflictInTree => ret.tag = "Err"
        /\ (ConflictInTree /\ Readable) => IsConflict(ret)
        /\ (~ConflictInTree /\ Readable) =>
              /\ ret.tag = "Ok"
              /\ \A t \in Tools : \A n \in Found(t) :
                    n \in DOMAIN ret.val /\ ret.val[n].tool = t

\* A conflict is reported for a tree in which one of the tools also has the
\* file in two of its versions.
C4_Witness ==
    /\ Done("generate_db") /\ IsConflict(ret)
    /\ \E e, f \in installs.exes :
          e[1] = f[1] /\ e[2] # f[2] /\ e[4] = f[4] /\ e[4] = ret.val[2]

\* C5: a map returned by generate_db_from_installed_tools has as keys
\* exactly the shimmable file names found directly inside a configured
\* bin_dir of a version directory of a tool, each mapped to the tool under
\* whose directory it was found.
C5_KeySet ==
    (Done("generate_db") /\ ret.tag = "Ok") =>
        /\ DOMAIN ret.val = UNION {Found(t) : t \in Tools}
        /\ \A n \in DOMAIN ret.val : n \in Found(ret.val[n].tool)

\* A map with a key from a bin_dir other than the default, for a tree that
\* also has a file without a shimmable extension in a configured bin_dir.
C5_Witness ==
    /\ Done("generate_db") /\ ret.tag = "Ok"
    /\ \E e \in installs.exes : e[3] = LIB /\ e[4] \in DOMAIN ret.val
    /\ \E e \in installs.exes :
          /\ <<e[1], e[2]>> \in installs.verDirs
          /\ e[3] \in ConfiguredBinDirs(e[1])
          /\ e[4] \notin DOMAIN ret.val

\* C6: a reshim whose scan detects a conflict leaves the database file and
\* the shim directory exactly as they were, with and without cleanup.
C6_ConflictLeavesAll ==
    [][ (runs' = runs + 1 /\ op'.name = "reshim" /\ IsConflict(ret'))
            => (dbFile' = dbFile /\ shimsDir' = shimsDir) ]_vars

\* A reshim with cleanup has failed on a conflict while a database file
\* and shims of an earlier reshim were in place.
C6_Witness ==
    /\ op.name = "reshim" /\ op.cleanup /\ IsConflict(ret)
    /\ dbFile.exists
    /\ \E n \in Names(shimsDir) : shimsDir.files[n].kind = "launcher"

\* C11: after a save_global that succeeded, with no environment override
\* and no local file defining the tool, get_version returns exactly the
\* saved version; after a save_local that succeeded, with no environment
\* override, get_version from that directory returns exactly the saved
\* version (stated for the tools that have an environment variable here).
C11_Claim ==
    /\ (Done("save_global") /\ ret = Ok /\ op.tool \in Tools
           /\ ~EnvSet(op.tool) /\ ~LocalDefines(op.tool))
          => get_version(op.tool) = Some(op.version)
    /\ (Done("save_local") /\ ret = Ok /\ op.tool \in Tools /\ ~EnvSet(op.tool))
          => get_version(op.tool) = Some(op.version)


\* A file with a line that is not "<tool> <version>".
HasMalformedLine(content) ==
    /\ content # NoFile
    /\ \E i \in 1..Len(ReadLines(content)) : ~WellFormedLine(ReadLines(content)[i])

FilesOnDisk == {local[d] : d \in Depths} \cup {global}

\* C12: a lookup in a tool-versions file that has a malformed line fails
\* with the invalid-line error, wherever that line stands relative to the
\* line of the tool looked up.
C12_Claim ==
    \A content \in FilesOnDisk : \A tool \in Tools :
        HasMalformedLine(content)
            => search_tool_in_file(tool, content) = Err("Invalid tools versions line")


\* The positions at which the line can be cut as the claim has it: a space
\* with no space before it, a non-empty part before it, and a non-empty
\* part without a space after it.
Cuts(line) ==
    { i \in 1..Len(line) :
        /\ line[i] = SP
        /\ \A j \in 1..(i - 1) : line[j] # SP
        /\ i > 1
        /\ i < Len(line)
        /\ \A j \in (i + 1)..Len(line) : line[j] # SP }

\* C13: parse_line accepts a line exactly when it has a space, a non-empty
\* part before the first space, and after it a non-empty part without a
\* space; it then returns the two parts as tool and version.
C13_ParseLine ==
    Done("parse_line") =>
        /\ ret.ok <=> Cuts(op.line) # {}
        /\ ret.ok => \A i \in Cuts(op.line) :
                        /\ ret.tool = SubSeq(op.line, 1, i - 1)
                        /\ ret.ver = SubSeq(op.line, i + 1, Len(op.line))

\* A line of the greatest length has been accepted.
C13_Witness ==
    /\ Done("parse_line") /\ ret.ok
    /\ Len(op.line) = MaxLineLen


\* installs_root/tool/version is on disk: an entry of that name in the
\* tool's directory, or the tool's directory itself for an empty version.
OnDisk(tool, version) ==
    IF version = <<>> THEN tool \in installs.toolDirs
    ELSE <<tool, version>> \in installs.verDirs \cup installs.verFiles

\* C14: ExecutableContext::new returns None whenever installs_root/tool/version
\* is absent, and a context rooted at installs_root/tool/version whenever
\* that directory is present, whether or not the command is in a bin_dir.
C14_NewContext ==
    Done("ExecutableContext::new") =>
        /\ ~OnDisk(op.tool, op.version) => ret = None
        /\ <<op.tool, op.version>> \in installs.verDirs =>
              /\ ret.tag = "Some"
              /\ ret.val.tool_install_root = <<op.tool, op.version>>

\* A context has been made for a version directory that holds the command
\* in none of its bin directories.
C14_Witness ==
    /\ Done("ExecutableContext::new") /\ ret.tag = "Some"
    /\ <<op.tool, op.version>> \in installs.verDirs
    /\ \A e \in installs.exes : ~(e[1] = op.tool /\ e[2] = op.version /\ e[4] = op.cmd)

\* C15: a context exists only for a tool and version whose install root is
\* an existing version directory; for an empty version and for a version
\* that names a regular file ExecutableContext::new returns None.
C15_Claim ==
    (Done("ExecutableContext::new") /\ ret.tag = "Some")
        => <<op.tool, op.version>> \in installs.verDirs

\* The command is in the bin_dir of the context's version.
CommandIn(ec, dir) ==
    <<ec.tool, ec.version, dir, ec.cmd_name>> \in installs.exes

Hits(ec) == {k \in 1..Len(ec.config.bin_dirs) : CommandIn(ec, ec.config.bin_dirs[k])}

\* C16: get_full_executable_path returns install_root/d/command for the
\* first bin_dir d, in the declared order, that holds the command, and None
\* exactly when no configured bin_dir holds it.
C16_FirstBinDir ==
    Done("get_full_executable_path") =>
        /\ ret = None <=> Hits(op.ec) = {}
        /\ Hits(op.ec) # {} =>
              ret = Some(op.ec.tool_install_root
                            \o <<op.ec.config.bin_dirs[Min(Hits(op.ec))], op.ec.cmd_name>>)

\* The command is in two configured bin_dirs and a path has been returned.
C16_Witness ==
    /\ Done("get_full_executable_path") /\ ret.tag = "Some"
    /\ Cardinality(Hits(op.ec)) = 2


\* The value the claim gives an EnvVarSpec in a context.
DeclaredValue(ec, spec) ==
    IF /\ spec.overriding_name.tag = "Some"
       /\ spec.overriding_name.val \in DOMAIN env
       /\ env[spec.overriding_name.val] # NotPresent
    THEN env[spec.overriding_name.val]
    ELSE IF spec.value.kind = "Value" THEN spec.value.val
    ELSE PathText(ec.tool_install_root \o <<spec.value.val>>)

\* C17: the environment built for a command has one (name, value) pair per
\* declared EnvVarSpec, in the declared order; the value is that of the
\* overriding variable when one is declared and set, else the literal or
\* the install root joined with the relative path.
C17_Envs ==
    Done("env_vars_to_envs") =>
        /\ Len(ret) = Len(op.ec.config.env_vars)
        /\ \A i \in 1..Len(ret) :
              /\ ret[i][1] = op.ec.config.env_vars[i].name
              /\ ret[i][2] = DeclaredValue(op.ec, op.ec.config.env_vars[i])

\* Two pairs have been built, one of them from an overriding variable that
\* is set.
C17_Witness ==
    /\ Done("env_vars_to_envs")
    /\ Len(ret) = 2
    /\ \E i \in 1..Len(ret) :
          /\ op.ec.config.env_vars[i].overriding_name.tag = "Some"
          /\ var_os(op.ec.config.env_vars[i].overriding_name.val).tag = "Some"
          /\ ret[i][2] # op.ec.config.env_vars[i].value.val

\* C18: a PluginConfig from Plugin::new has a non-empty bin_dirs: the
\* default config without a file; ["bin"] with the file's env_vars for a
\* file whose bin_dirs is absent or empty; an error for a malformed file.
C18_PluginConfig ==
    Done("Plugin::new") =>
        LET file == plugins[op.tool]
        IN  /\ ret.tag = "Ok" => ret.val.bin_dirs # <<>>
            /\ file.state = "absent" => ret = OkVal(PluginConfig(<<BIN>>, <<>>))
            /\ file.state = "malformed" => ret.tag = "Err"
            /\ (file.state = "ok" /\ (~file.has_bin_dirs \/ file.bin_dirs = <<>>)) =>
                  /\ ret.tag = "Ok"
                  /\ ret.val.bin_dirs = <<BIN>>
                  /\ ret.val.env_vars = (IF file.has_env_vars THEN file.env_vars ELSE <<>>)

\* A file with an empty bin_dirs list and with env_vars has been loaded.
C18_Witness ==
    /\ Done("Plugin::new") /\ ret.tag = "Ok"
    /\ plugins[op.tool].state = "ok"
    /\ plugins[op.tool].has_bin_dirs /\ plugins[op.tool].bin_dirs = <<>>
    /\ plugins[op.tool].env_vars # <<>>


\* The keys of the persisted shim database.
PersistedKeys == DOMAIN load_db(dbFile).val

\* C19: after a successful create_shims(cleanup) the files of the shim
\* directory are the keys of the persisted database together with the
\* files that were there before when cleanup is false, and with nothing
\* else when it is true; without cleanup the files that are no database key
\* are left as they were.
C19_ShimFiles ==
    (Done("create_shims") /\ ret = Ok) =>
        /\ Names(shimsDir) =
              PersistedKeys \cup (IF op.cleanup THEN {} ELSE Names(op.before))
        /\ ~op.cleanup =>
              \A n \in Names(op.before) \ PersistedKeys :
                  shimsDir.files[n] = op.before.files[n]

\* create_shims without cleanup has succeeded on a database with a key
\* while a file that is no key was in the directory.
C19_Witness ==
    /\ Done("create_shims") /\ ret = Ok /\ ~op.cleanup
    /\ PersistedKeys # {}
    /\ Names(op.before) \ PersistedKeys # {}


\* No source of the cascade gives the tool a version.
NoVersionConfigured(tool) ==
    /\ ~EnvUsable(tool)
    /\ ~LocalDefines(tool)
    /\ ~Recorded(global, tool)

\* The stage at which a lookup of the resolved name first fails, 8 when
\* none does: 1 install root, 2 name resolution, 3 owning tool, 4 plugin
\* config, 5 version cascade, 6 install root of the version, 7 executable
\* path.
FailingStage ==
    IF ~installs.exists THEN 1
    ELSE IF op.resolved = None THEN 2
    ELSE IF op.resolved.val \notin PersistedKeys THEN 3
    ELSE LET tool == load_db(dbFile).val[op.resolved.val].tool
         IN  IF plugins[tool].state = "malformed" THEN 4
             ELSE IF NoVersionConfigured(tool) THEN 5
             ELSE IF ~OnDisk(tool, get_version(tool).val) THEN 6
             ELSE IF \A d \in ConfiguredBinDirs(tool) :
                        <<tool, get_version(tool).val, d, op.resolved.val>>
                            \notin installs.exes
                  THEN 7
                  ELSE 8

\* C20: a command lookup fails with the error of the earliest failing
\* stage: an unresolvable name gives 'Could not find shim', a shim without
\* a database entry 'No tool configured', no version through the cascade
\* 'No version configured', a configured but absent version directory
\* 'configured but not installed', a command in no bin_dir of the version
\* 'does not exist in version'.
C20_Claim ==
    (Done("find_path_for_cmd") /\ (dbFile.exists \/ op.resolved = None)) =>
        /\ FailingStage = 1 => ret = Err("not an existing directory")
        /\ FailingStage = 2 => ret = Err("Could not find shim named")
        /\ FailingStage = 3 => ret = Err("No tool configured for the command")
        /\ FailingStage = 4 => ret = Err("Getting plugin")
        /\ FailingStage = 5 => ret = Err("No version configured")
        /\ FailingStage = 6 => ret = Err("is configured but not installed")
        /\ FailingStage = 7 => ret = Err("does not exist in version")
        /\ FailingStage = 8 => ret.tag = "Ok"


\* The bin_dirs of the tool's plugin configuration in which the version
\* holds the file, by position.
BinDirHits(tool, version, name) ==
    LET dirs == get_plugin(tool).val.bin_dirs
    IN  {k \in 1..Len(dirs) : <<tool, version, dirs[k], name>> \in installs.exes}

\* C21: a successful find_path_for_cmd(cmd) returns installs_dir/T/V/D/N,
\* where N is the name resolve_command yields (cmd itself or cmd with an
\* extension completed), T the tool the database records for N, V the
\* version get_version yields for T and D the first configured bin_dir of T
\* that holds N; and cmd given with '.exe' yields the same path as cmd
\* given without it.
C21_Claim ==
    (Done("find_path_for_cmd") /\ ret.tag = "Ok") =>
        LET N == op.resolved.val
            T == load_db(dbFile).val[N].tool
            V == get_version(T).val
            D == get_plugin(T).val.bin_dirs[Min(BinDirHits(T, V, N))]
        IN  /\ N \in {op.cmd} \cup Appended(op.cmd)
            /\ ret.val = <<T, V, D, N>>
            /\ extension(op.cmd) = None =>
                  \A out \in run_with_executable_context(op.cmd \o <<DOT>> \o EXE) :
                      out.ret = ret


KindOf(name) ==
    IF extension(name) = Some(EXE) THEN "ExeShim"
    ELSE IF extension(name) \in {Some(CMD), Some(BAT)} THEN "CmdShim"
    ELSE "none"

\* C25: in a successful scan every '.exe', '.cmd' and '.bat' file of a
\* scanned bin_dir has an entry; the entry of a '.exe' file is the native
\* launcher kind and that of a '.cmd' or '.bat' file the script kind.
C25_Claim ==
    (Done("generate_db") /\ ret.tag = "Ok") =>
        \A e \in installs.exes :
            (/\ <<e[1], e[2]>> \in installs.verDirs
             /\ e[3] \in ConfiguredBinDirs(e[1])
             /\ KindOf(e[4]) # "none")
            => /\ e[4] \in DOMAIN ret.val
               /\ ret.val[e[4]].tipe = KindOf(e[4])


\* C29: for a raw name and a set of file names in the shim directory,
\* resolve_command returns the same result in whatever order the directory
\* entries are listed, also when several candidates exist at once.
C29_Claim ==
    Done("resolve_command") =>
        \A entries \in ReadDirOrders(shimsDir) :
            resolve_command(op.exe, entries) = ret


\* C27: create_shims(cleanup = true) on a database file that is missing or
\* does not decode returns the error of loading it and leaves the shim
\* directory in place and empty: the files that were in it are gone and no
\* shim has been written.
C27_CleanupThenLoad ==
    (Done("create_shims") /\ op.cleanup /\ op.before.exists
        /\ load_db(dbFile).tag = "Err") =>
        /\ ret = load_db(dbFile)
        /\ shimsDir = EmptyDir

\* A cleanup over a directory that held files has failed on a database that
\* is there but does not decode.
C27_Witness ==
    /\ Done("create_shims") /\ op.cleanup
    /\ Names(op.before) # {}
    /\ dbFile.exists /\ ret.tag = "Err"
    /\ shimsDir = EmptyDir


\* A version directory lacks a configured bin_dir of its tool, or a plain
\* file lies in the installs directory.
Unscannable ==
    \/ installs.toolFiles # {}
    \/ \E vd \in installs.verDirs : \E d \in ConfiguredBinDirs(vd[1]) :
          <<vd[1], vd[2], d>> \notin installs.binDirs

\* C28: the scan returns a complete map or an error; with a version
\* directory that lacks a configured bin_dir, or a plain file in the
\* installs directory, every scan fails, and a reshim then fails and leaves
\* the database file and the shim directory as they were.
C28_AllOrNothing ==
    [][ (runs' = runs + 1 /\ op'.name = "reshim") =>
          /\ \A r \in generate_db_from_installed_tools :
                /\ Unscannable => r.tag = "Err"
                /\ r.tag = "Ok" => DOMAIN r.val = UNION {Found(t) : t \in Tools}
          /\ Unscannable =>
                (ret'.tag = "Err" /\ dbFile' = dbFile /\ shimsDir' = shimsDir) ]_vars

\* A second reshim has failed on a tree that holds an installed command
\* next to an empty version directory, after a first one had written the
\* database.
C28_Witness ==
    /\ op.name = "reshim" /\ runs = 2
    /\ ret = Err("read_dir failed")
    /\ dbFile.exists
    /\ installs.toolFiles = {}
    /\ installs.exes # {}
    /\ Unscannable


\* What a scan of the installation tree records: every shimmable file of a
\* configured bin_dir under its tool, with the kind of its extension.
ScanOfTree ==
    [n \in UNION {Found(t) : t \in Tools} |->
        ShimData(CHOOSE t \in Tools : n \in Found(t),
                 IF extension(n) = Some(EXE) THEN "ExeShim" ELSE "CmdShim")]

\* C24: every successful reshim leaves a database that decodes to the scan
\* of the installation tree as it is then, whatever the database held
\* before, and nothing but a reshim changes the database; so between
\* reshims the database is the scan of the tree at the last successful one,
\* and a command no installed version holds has no entry.
C24_FreshDatabase ==
    [][ /\ (runs' = runs + 1 /\ op'.name = "reshim" /\ ret' = Ok) =>
              load_db(dbFile') = OkVal(ScanOfTree)
        /\ dbFile' # dbFile => (runs' = runs + 1 /\ op'.name = "reshim") ]_vars

\* After an uninstall and a second successful reshim without cleanup the
\* shim of the uninstalled command is still in the shim directory and
\* find_tool does not find the command.
C24_Witness ==
    /\ op = [name |-> "reshim", cleanup |-> FALSE] /\ ret = Ok /\ runs = 2
    /\ \E n \in Names(shimsDir) :
          /\ shimsDir.files[n].kind # "user"
          /\ n \notin UNION {Found(t) : t \in Tools}
          /\ find_tool(n) = None
    /\ PersistedKeys # {}


\* The directories the walk has looked into are the current directory and
\* its ancestors in child-to-parent order, each once; a walk that has ended
\* not-found has looked into all of them, the root included, and a walk
\* that has ended returns what the search of those directories gives.
WalkInOrder ==
    op.name = "walk" =>
        /\ Len(op.visited) <= op.start + 1
        /\ \A i \in 1..Len(op.visited) : op.visited[i] = DirPath(op.start - (i - 1))
        /\ (phase = "done" /\ ret = None) => Len(op.visited) = op.start + 1
        /\ phase = "done" => ret = WalkUp(op.tool, DirPath(op.start))

\* C26: the upward walk of get_version ends for every current directory;
\* it looks into each directory from the current one up to and including
\* the root at most once, child before parent, and returns not-found only
\* after the root has been looked into.
C26_WalkEnds ==
    /\ [](WalkInOrder)
    /\ (phase = "walking") ~> (phase = "done")

\* A walk from the deepest directory has ended not-found after passing a
\* directory whose file does not define the tool.
C26_Witness ==
    /\ Done("walk") /\ ret = None
    /\ op.start = MaxDepth
    /\ Len(op.visited) = MaxDepth + 1
    /\ \E d \in Depths : local[d] # NoFile


\* A lookup has been made beside a reshim that has ended well, of a command
\* that was a shim before the reshim and is one after it.
LookedUpLastingShim ==
    /\ op.name = "reshim" /\ op.pc = "done" /\ ret = Ok
    /\ op.lookup # NoLookup
    /\ op.lookup.cmd \in op.before \cap Names(shimsDir)

\* C23: a lookup beside a reshim can see an intermediate state.  A lookup of
\* a command that is a shim before and after the reshim fails or returns
\* not-found only when the reshim cleans up and the lookup falls between
\* the removal of the shim directory and the end of the rewriting of the
\* shims; there it does happen.
C23_Window ==
    (LookedUpLastingShim /\ op.lookup.resolved.tag \in {"None", "Err"}) =>
        /\ op.cleanup
        /\ op.lookup.at \in {"create_dir", "load_db", "write"}

\* Such a lookup has returned not-found.
C23_Witness ==
    /\ LookedUpLastingShim
    /\ op.lookup.resolved = None
    /\ op.lookup.tool.tag = "Some"


\* Both writers have ended well, and both loaded the file before either
\* wrote it.
BothLoadedFirst ==
    /\ Done("set_tool_version") /\ ret = Ok
    /\ Len(op.log) = 4
    /\ op.log[1][2] = "load_file" /\ op.log[2][2] = "load_file"

\* C30: when two saves for different tools on one file both load the file
\* before either writes it, the file in the end is the file as it was
\* loaded with the pair of the later writer alone: the pair of the earlier
\* writer is lost.
C30_LostUpdate ==
    BothLoadedFirst =>
        LET later == op.w[op.log[4][1]]
            earlier == op.w[op.log[3][1]]
            written == insert(load_file(op.original).data, later.tool, later.version)
        IN  /\ \E order \in IterationOrders(DOMAIN written) :
                  global = save_file(written, order)
            /\ earlier.tool \notin DOMAIN load_file(op.original).data
                  => earlier.tool \notin DOMAIN written

\* The earlier writer's tool, which it has saved with a version, is not in
\* the file, which had entries of neither tool before.
C30_Witness ==
    /\ BothLoadedFirst
    /\ op.original # NoFile
    /\ DOMAIN load_file(op.original).data = {}
    /\ op.w[op.log[3][1]].version # <<>>
    /\ load_file(global).ok
    /\ DOMAIN load_file(global).data = {op.w[op.log[4][1]].tool}

====
